---- MODULE Spec2Model ----
(***************************************************************************)
(* A model of the Aduro stove coordinator (coordinator.py): the pending-   *)
(* change state machine, consumption accounting, the alert evaluator, the  *)
(* rate learning store and the depletion predictor.                        *)
(*                                                                         *)
(* Handlers are written as operators from a coordinator record (the        *)
(* fields of `self`) to a coordinator record, composed in the order the    *)
(* code calls them.  A coroutine is split at its asyncio.sleep calls: the  *)
(* part before and the part after are separate steps, and other steps may *)
(* run in between.                                                         *)
(*                                                                         *)
(* Time stamps are kept as ages: a stamp holds the time elapsed since      *)
(* datetime.now() was stored in it, Tick makes every stamp one unit older, *)
(* and an age saturates at MaxAge, which is above every threshold an age   *)
(* is compared with.  Masses are integers (one unit is a fixed fraction of *)
(* a kilogram); averages are exact fractions [num, den].                   *)
(***************************************************************************)
EXTENDS Integers, Sequences, FiniteSets, TLC

VARIABLES
    self,   \* the fields of the AduroCoordinator object
    data,   \* coordinator.data: the snapshot published by the last poll
    poll,   \* the poll coroutine: where it is suspended, and its local data
    call,   \* the control calls suspended in their settle delays, if any
    env,    \* the surroundings of this run: which calls are made, what is fed
    ghost   \* history the claims are stated with; never read by a handler

vars == <<self, data, poll, call, env, ghost>>

\* Python's None, for the nullable numeric fields.
NULL == 0 - 1

\* ------------------------------------------------------------------------
\* Bounds of the model
\* ------------------------------------------------------------------------
MaxAge == 3          \* ages saturate here
MaxDay == 5          \* largest daily-counter reading tried on a state
MaxConsumed == 2     \* the stove burns no more than this where readings are not recorded
MaxReadings == 4     \* daily-counter readings of a run that records them
MaxObs == 3          \* observations recorded per learning bucket
MaxCalls == 2        \* control calls issued in the fair specification

\* ------------------------------------------------------------------------
\* const.py (not part of the sources at hand)
\* ------------------------------------------------------------------------
\* Time-outs in units of Tick.
TIMEOUT_COMMAND_RESPONSE == 1
TIMEOUT_CHANGE_IN_PROGRESS == 2
SHUTDOWN_STATES == {"13", "14"}
POWER_HEAT_LEVEL_MAP(heatlevel) ==
    CASE heatlevel = 1 -> 10 [] heatlevel = 2 -> 50 [] OTHER -> 100

\* ------------------------------------------------------------------------
\* Values the stove and the callers supply
\* ------------------------------------------------------------------------
HeatLevels == {1, 2, 3}
OperationModes == {0, 1, 2}

Min(a, b) == IF a < b THEN a ELSE b
Max(a, b) == IF a > b THEN a ELSE b

\* datetime.now() stored in a stamp: age 0.
Now == 0
\* (datetime.now() - stamp).total_seconds()
Elapsed(stamp) == stamp
Older(stamp) == IF stamp = NULL THEN NULL ELSE Min(stamp + 1, MaxAge)

\* One command handed to set.run.
Cmd(path, value) == [path |-> path, value |-> value]

\* ------------------------------------------------------------------------
\* Learning data.  Rates and averages are Python floats; here they are
\* exact fractions in lowest terms, so equal values are equal records.
\* ------------------------------------------------------------------------
RECURSIVE GCD(_, _)
GCD(a, b) == IF b = 0 THEN a ELSE CHOOSE g \in { GCD(y, x % y) : x \in {a}, y \in {b} } : TRUE

Abs(n) == IF n < 0 THEN 0 - n ELSE n

\* num / den with den > 0.
Fraction(num, den) ==
    CHOOSE f \in { [num |-> n \div g, den |-> d \div g] :
                     n \in {num}, d \in {den}, g \in {GCD(Abs(num), den)} } : TRUE

Whole(n) == Fraction(n, 1)
Plus(a, b) ==
    CHOOSE f \in { Fraction(x.num * y.den + y.num * x.den, x.den * y.den) :
                     x \in {a}, y \in {b} } : TRUE
Times(a, b) ==
    CHOOSE f \in { Fraction(x.num * y.num, x.den * y.den) : x \in {a}, y \in {b} } : TRUE
\* a / b with b > 0.
Over(a, b) ==
    CHOOSE f \in { Fraction(x.num * y.den, x.den * y.num) : x \in {a}, y \in {b} } : TRUE

\* A datetime is the number of days since it was taken, datetime.now() is
\* Datetime(Now); isoformat makes it a string and fromisoformat a datetime
\* again.
Datetime(days) == [type |-> "datetime", days |-> days]
isoformat(dt) == [type |-> "str", days |-> dt.days]
fromisoformat(string) == [type |-> "datetime", days |-> string.days]

\* Keys of a stored dict: str(k) of a key k, which JSON also makes of an
\* integer key, and an integer key as it is; eval(key_str) gives k back.
StrKey(k) == [type |-> "str", value |-> k]
IntKey(k) == [type |-> "int", value |-> k]
EvalKey(key_str) == key_str.value

\* A dict: a function on the set of its keys.
EmptyDict == [k \in {} |-> 0]
Put(dict, key, value) ==
    [k \in (DOMAIN dict) \cup {key} |-> IF k = key THEN value ELSE dict[k]]

\* sum(obs["count"] for obs in dict.values())
RECURSIVE SumCounts(_, _)
SumCounts(dict, keys) ==
    IF keys = {} THEN 0
    ELSE LET k == CHOOSE key \in keys : TRUE
         IN dict[k].count + SumCounts(dict, keys \ {k})

\* The default average consumption rate of a heat level, in kg/h.
DefaultConsumptionRate(heatlevel) ==
    CASE heatlevel = 1 -> Fraction(35, 100)
      [] heatlevel = 2 -> Fraction(75, 100)
      [] heatlevel = 3 -> Fraction(120, 100)
      [] OTHER -> Fraction(75, 100)

EmptyConsumption(heatlevel) ==
    [count |-> 0, total_consumption_rate |-> Whole(0),
     avg_consumption_rate |-> DefaultConsumptionRate(heatlevel)]

\* The startup aggregate of __init__: 150 g and 6 minutes per startup.
\* has_total_consumption says that the dict has the key "total_consumption".
EmptyStartup ==
    [count |-> 0, has_total_consumption |-> TRUE,
     total_consumption |-> Whole(0),
     avg_consumption |-> Fraction(15, 100), avg_duration |-> Whole(360)]

EmptyDeltas ==
    [shutdown |-> [count |-> 0, total_delta |-> Whole(0),
                   avg_delta |-> Fraction(11, 10)],
     restart |-> [count |-> 0, total_delta |-> Whole(0),
                  avg_delta |-> Fraction(6, 10)]]

InitLearningData ==
    [heating_observations |-> EmptyDict,
     cooling_observations |-> EmptyDict,
     consumption_observations |-> [hl \in 1..3 |-> EmptyConsumption(hl)],
     startup_observations |-> EmptyStartup,
     shutdown_restart_deltas |-> EmptyDeltas]

\* _get_temp_delta_bucket: the nearest half degree, here in half degrees
\* (the argument is the delta in half degrees, a whole number for whole
\* temperatures).
_get_temp_delta_bucket(half_degrees) == half_degrees

\* x / duration_hours if duration_hours > 0 else 0
Rate(x, duration_seconds) ==
    IF duration_seconds > 0
    THEN Over(Whole(x), Fraction(duration_seconds, 3600))
    ELSE Whole(0)

\* _record_heating_observation, with no outdoor sensor configured.
_record_heating_observation(ld, heatlevel, duration_seconds, start_room_temp, end_room_temp, target_temp, consumption_kg) ==
    LET heating_rate == Rate(end_room_temp - start_room_temp, duration_seconds)
        consumption_rate == Rate(consumption_kg, duration_seconds)
        key == <<heatlevel,
                 _get_temp_delta_bucket(2 * target_temp - start_room_temp
                                          - end_room_temp),
                 NULL>>
        heating == IF key \in DOMAIN ld.heating_observations
                   THEN ld.heating_observations
                   ELSE Put(ld.heating_observations, key,
                            [count |-> 0, total_heating_rate |-> Whole(0),
                             avg_heating_rate |-> Whole(0),
                             last_updated |-> Datetime(Now)])
        obs == heating[key]
        total_heating_rate == Plus(obs.total_heating_rate, heating_rate)
        consumption == IF heatlevel \in DOMAIN ld.consumption_observations
                       THEN ld.consumption_observations
                       ELSE Put(ld.consumption_observations, heatlevel,
                                EmptyConsumption(heatlevel))
        cons_obs == consumption[heatlevel]
        total_consumption_rate ==
            Plus(cons_obs.total_consumption_rate, consumption_rate)
    IN [ld EXCEPT
          !.heating_observations =
              Put(heating, key,
                  [count |-> obs.count + 1,
                   total_heating_rate |-> total_heating_rate,
                   avg_heating_rate |->
                       Over(total_heating_rate, Whole(obs.count + 1)),
                   last_updated |-> Datetime(Now)]),
          !.consumption_observations =
              Put(consumption, heatlevel,
                  [count |-> cons_obs.count + 1,
                   total_consumption_rate |-> total_consumption_rate,
                   avg_consumption_rate |->
                       Over(total_consumption_rate,
                            Whole(cons_obs.count + 1))])]

\* _record_cooling_observation, with no outdoor sensor configured.
_record_cooling_observation(ld, duration_seconds, start_room_temp, end_room_temp) ==
    LET cooling_rate == Rate(start_room_temp - end_room_temp, duration_seconds)
        key == <<NULL, (start_room_temp \div 2) * 2>>
        cooling == IF key \in DOMAIN ld.cooling_observations
                   THEN ld.cooling_observations
                   ELSE Put(ld.cooling_observations, key,
                            [count |-> 0, total_cooling_rate |-> Whole(0),
                             avg_cooling_rate |-> Whole(0),
                             last_updated |-> Datetime(Now)])
        obs == cooling[key]
        total_cooling_rate == Plus(obs.total_cooling_rate, cooling_rate)
    IN [ld EXCEPT
          !.cooling_observations =
              Put(cooling, key,
                  [count |-> obs.count + 1,
                   total_cooling_rate |-> total_cooling_rate,
                   avg_cooling_rate |->
                       Over(total_cooling_rate, Whole(obs.count + 1)),
                   last_updated |-> Datetime(Now)])]

\* startup["total_consumption"] += ... raises KeyError when the dict has no
\* such key, before anything is assigned.
StartupRaises(ld) == ~ld.startup_observations.has_total_consumption

\* _record_startup_observation; the learning data as the call leaves it.
_record_startup_observation(ld, duration_seconds, consumption_kg) ==
    LET startup == ld.startup_observations
        total_consumption == Plus(startup.total_consumption,
                                  Whole(consumption_kg))
    IN IF StartupRaises(ld) THEN ld
       ELSE [ld EXCEPT !.startup_observations =
               [count |-> startup.count + 1,
                has_total_consumption |-> TRUE,
                total_consumption |-> total_consumption,
                avg_consumption |->
                    Over(total_consumption, Whole(startup.count + 1)),
                avg_duration |->
                    Over(Plus(Times(startup.avg_duration,
                                    Whole(startup.count)),
                              Whole(duration_seconds)),
                         Whole(startup.count + 1))]]

\* The running average of one of the two deltas.
RecordDelta(delta_data, delta) ==
    [count |-> delta_data.count + 1,
     total_delta |-> Plus(delta_data.total_delta, Whole(delta)),
     avg_delta |-> Over(Plus(delta_data.total_delta, Whole(delta)),
                        Whole(delta_data.count + 1))]

\* _track_learning_state_changes, the stove restarted by itself: how far
\* below the target the room was.
RecordRestartDelta(ld, target_temp, current_room_temp) ==
    [ld EXCEPT !.shutdown_restart_deltas.restart =
        RecordDelta(@, target_temp - current_room_temp)]

\* _track_learning_state_changes, the stove stopped by itself: how far above
\* the target the room was.
RecordShutdownDelta(ld, current_room_temp, current_target_temp) ==
    [ld EXCEPT !.shutdown_restart_deltas.shutdown =
        RecordDelta(@, current_room_temp - current_target_temp)]

\* What the store returns when every key is absent: the data.get defaults.
DefaultBlob == [
    pellets_consumed |-> 0, pellets_consumed_total |-> 0,
    auto_resume_after_wood |-> FALSE, auto_shutdown_enabled |-> FALSE,
    pellet_capacity |-> 95, notification_level |-> 10, shutdown_level |-> 5,
    high_smoke_temp_threshold |-> 370, high_smoke_duration_threshold |-> 30,
    low_wood_temp_threshold |-> 175, low_wood_duration_threshold |-> 300,
    has_learning_data |-> FALSE,
    heating_observations |-> EmptyDict, cooling_observations |-> EmptyDict,
    consumption_observations |-> EmptyDict,
    has_startup_observations |-> FALSE, startup_observations |-> EmptyStartup,
    shutdown_restart_deltas |-> EmptyDict
]

\* ------------------------------------------------------------------------
\* Learning sessions.  A session attribute that is None is a record with
\* open FALSE; its stamps are ages in minutes.
\* ------------------------------------------------------------------------
NoHeatingSession ==
    [open |-> FALSE, heatlevel |-> NULL, start_room_temp |-> NULL,
     start_learning_consumption |-> NULL, target_temp |-> NULL,
     stable_start_time |-> NULL]

NoCoolingSession ==
    [open |-> FALSE, start_time |-> NULL, start_room_temp |-> NULL,
     target_temp |-> NULL, operation_mode |-> NULL]

NoStartupSession ==
    [open |-> FALSE, start_time |-> NULL, start_learning_consumption |-> NULL]

\* ------------------------------------------------------------------------
\* __init__
\* ------------------------------------------------------------------------
InitSelf == [
    \* mode change tracking
    toggle_heat_target |-> FALSE,
    target_heatlevel |-> NULL,
    target_temperature |-> NULL,
    target_operation_mode |-> NULL,
    mode_change_started |-> NULL,
    change_in_progress |-> FALSE,
    resend_attempt |-> 0,
    max_resend_attempts |-> 3,
    \* pellet tracking
    pellet_capacity |-> 95,
    pellets_consumed |-> 0,
    pellets_consumed_total |-> 0,
    notification_level |-> 10,
    shutdown_level |-> 5,
    auto_shutdown_enabled |-> FALSE,
    shutdown_notification_sent |-> FALSE,
    low_pellet_notification_sent |-> FALSE,
    has_last_consumption_day_value |-> FALSE,
    last_consumption_day_value |-> 0,
    consumption_at_refill |-> NULL,
    \* wood mode tracking
    auto_resume_after_wood |-> FALSE,
    was_in_wood_mode |-> FALSE,
    pre_wood_mode_heatlevel |-> NULL,
    pre_wood_mode_temperature |-> NULL,
    pre_wood_mode_operation_mode |-> NULL,
    auto_resume_sent |-> FALSE,
    \* temperature alert tracking
    high_smoke_temp_threshold |-> 370,
    high_smoke_duration_threshold |-> 30,
    high_smoke_temp_start_time |-> NULL,
    high_smoke_alert_active |-> FALSE,
    high_smoke_alert_sent |-> FALSE,
    low_wood_temp_threshold |-> 175,
    low_wood_duration_threshold |-> 300,
    low_wood_temp_start_time |-> NULL,
    low_wood_alert_active |-> FALSE,
    low_wood_alert_sent |-> FALSE,
    \* learning system
    learning_data |-> InitLearningData,
    learning_consumption_total |-> 0,
    last_consumption_day_for_learning |-> NULL,
    current_heating_session |-> NoHeatingSession,
    current_cooling_session |-> NoCoolingSession,
    current_startup_session |-> NoStartupSession,
    last_learning_state |-> "none",
    \* entry.data.get(CONF_EXTERNAL_TEMP_SENSOR), "none" for None
    external_temp_sensor |-> "none",
    \* what the Store holds
    store |-> DefaultBlob,
    \* the async_save_pellet_data tasks of the event loop that have not
    \* finished, in the order of their creation
    save_tasks |-> <<>>,
    \* _last_pellet_save: minutes since the stamp, NULL before the first poll
    last_pellet_save |-> NULL,
    \* stove_ip, "none" for None, and whether _last_network_update and
    \* _last_consumption_update are within the last five minutes
    stove_ip |-> "none",
    network_fresh |-> FALSE,
    consumption_fresh |-> FALSE,
    \* previous values for change detection
    previous_heatlevel |-> NULL,
    previous_temperature |-> NULL,
    previous_operation_mode |-> NULL,
    previous_state |-> "none"
]


\* ------------------------------------------------------------------------
\* The data dictionary a poll builds and publishes
\* ------------------------------------------------------------------------
\* async_setup_entry pre-populates coordinator.data with the pellets block.
EmptyData == [
    hasStatus |-> FALSE, operation_mode |-> NULL,
    hasOperating |-> FALSE, state |-> "none", heatlevel |-> NULL,
    boiler_ref |-> NULL, boiler_temp |-> NULL, smoke_temp |-> 0,
    hasConsumption |-> FALSE, day |-> 0,
    hasNetwork |-> FALSE,
    hasPellets |-> FALSE, amount |-> 0, capacity |-> 0,
    app_change_detected |-> FALSE, auto_stop_detected |-> FALSE,
    auto_resume_commanded |-> FALSE,
    low_pellet_alert |-> FALSE, shutdown_alert |-> FALSE,
    high_smoke_temp_triggered |-> FALSE, low_wood_temp_triggered |-> FALSE
]

async_setup_entry(s) ==
    [EmptyData EXCEPT !.hasPellets = TRUE,
                      !.capacity = s.pellet_capacity,
                      !.amount = Max(0, s.pellet_capacity - s.pellets_consumed)]

\* What the fetches of one cycle return.  status is the operation mode or
\* NULL when _async_get_status failed; operating is FALSE when
\* _async_get_operating_data failed; cons is "fetched", "failed" or
\* "skipped" (_should_update_consumption said no).
Telemetry(status, operating, state, heatlevel, boiler_ref, boiler_temp, smoke_temp, cons, day) ==
    [status |-> status, operating |-> operating, state |-> state,
     heatlevel |-> heatlevel, boiler_ref |-> boiler_ref,
     boiler_temp |-> boiler_temp, smoke_temp |-> smoke_temp,
     cons |-> cons, day |-> day]

\* _async_update_data, "Fetch all data".
FetchAllData(t, old) ==
    LET d1 == IF t.status # NULL
              THEN [EmptyData EXCEPT !.hasStatus = TRUE, !.operation_mode = t.status]
              ELSE EmptyData
        d2 == IF t.operating
              THEN [d1 EXCEPT !.hasOperating = TRUE, !.state = t.state,
                              !.heatlevel = t.heatlevel,
                              !.boiler_ref = t.boiler_ref,
                              !.boiler_temp = t.boiler_temp,
                              !.smoke_temp = t.smoke_temp]
              ELSE d1
    IN  CASE t.cons = "fetched" ->
               [d2 EXCEPT !.hasConsumption = TRUE, !.day = t.day]
          [] t.cons = "skipped" /\ old.hasConsumption ->
               [d2 EXCEPT !.hasConsumption = TRUE, !.day = old.day]
          [] OTHER -> d2

\* ------------------------------------------------------------------------
\* _process_state_changes
\* ------------------------------------------------------------------------
is_in_wood_mode(d) == d.state = "9"

\* "Entering wood mode": save the pellet settings.
EnterWoodMode(s, d) ==
    IF is_in_wood_mode(d) /\ ~s.was_in_wood_mode
    THEN [s EXCEPT !.pre_wood_mode_operation_mode = d.operation_mode,
                   !.pre_wood_mode_heatlevel = d.heatlevel,
                   !.pre_wood_mode_temperature = d.boiler_ref,
                   !.was_in_wood_mode = TRUE,
                   !.auto_resume_sent = FALSE]
    ELSE s

\* "WHILE in wood mode": the condition under which the poll calls
\* _async_resume_pellet_operation.
\* The resume is sent whether or not it has been sent before.
ShouldAutoResumeAgain(s, d) ==
    /\ is_in_wood_mode(d) /\ s.was_in_wood_mode
    /\ s.auto_resume_after_wood
    /\ s.pre_wood_mode_operation_mode = 0
    /\ d.smoke_temp <= 110

ShouldAutoResume(s, d) ==
    /\ is_in_wood_mode(d) /\ s.was_in_wood_mode
    /\ s.auto_resume_after_wood
    /\ s.pre_wood_mode_operation_mode = 0
    /\ d.smoke_temp <= 110
    /\ ~s.auto_resume_sent

\* "Exiting wood mode - clear flags".
ExitWoodMode(s, d) ==
    IF ~is_in_wood_mode(d) /\ s.was_in_wood_mode
    THEN [s EXCEPT !.was_in_wood_mode = FALSE, !.auto_resume_sent = FALSE]
    ELSE s

UpdatePrevious(s, d) ==
    [s EXCEPT !.previous_state = d.state,
              !.previous_heatlevel = d.heatlevel,
              !.previous_temperature = d.boiler_ref,
              !.previous_operation_mode = d.operation_mode]

\* "Check for external stop command FIRST".
ExternalStop(s, d) ==
    /\ s.previous_state # "none"
    /\ d.state \in SHUTDOWN_STATES
    /\ s.previous_state \notin SHUTDOWN_STATES

\* ClearOnExternalStop as it would be if it cleared the flags and left the
\* targets.
ClearOnExternalStopKeepsTargets(s, d) ==
    UpdatePrevious([s EXCEPT !.change_in_progress = FALSE,
                             !.toggle_heat_target = FALSE,
                             !.mode_change_started = NULL,
                             !.resend_attempt = 0], d)

ClearOnExternalStop(s, d) ==
    UpdatePrevious([s EXCEPT !.change_in_progress = FALSE,
                             !.toggle_heat_target = FALSE,
                             !.mode_change_started = NULL,
                             !.resend_attempt = 0,
                             !.target_heatlevel = NULL,
                             !.target_temperature = NULL,
                             !.target_operation_mode = NULL], d)

\* "Detect external changes (from app)": only when no change is in progress.
HeatlevelChanged(s, d) ==
    d.operation_mode = 0 /\ s.previous_heatlevel # NULL
                        /\ d.heatlevel # s.previous_heatlevel
TemperatureChanged(s, d) ==
    d.operation_mode = 1 /\ s.previous_temperature # NULL
                        /\ d.boiler_ref # s.previous_temperature
OperationModeChanged(s, d) ==
    s.previous_operation_mode # NULL
        /\ d.operation_mode # s.previous_operation_mode

AppChangeDetected(s, d) ==
    /\ ~s.change_in_progress
    /\ HeatlevelChanged(s, d) \/ TemperatureChanged(s, d) \/ OperationModeChanged(s, d)

\* A detection that flags the change and leaves the targets alone.
DetectExternalChangesOnly(s, d) == s

DetectExternalChanges(s, d) ==
    IF ~AppChangeDetected(s, d) THEN s
    ELSE LET s1 == IF HeatlevelChanged(s, d)
                   THEN [s EXCEPT !.target_heatlevel = d.heatlevel] ELSE s
             s2 == IF TemperatureChanged(s, d)
                   THEN [s1 EXCEPT !.target_temperature = d.boiler_ref] ELSE s1
             s3 == IF OperationModeChanged(s, d)
                   THEN [s2 EXCEPT !.target_operation_mode = d.operation_mode] ELSE s2
             \* "Update targets to match current values"
             s4 == CASE d.operation_mode = 0 ->
                          [s3 EXCEPT !.target_heatlevel = d.heatlevel,
                                     !.target_operation_mode = 0]
                     [] d.operation_mode = 1 ->
                          [s3 EXCEPT !.target_temperature = d.boiler_ref,
                                     !.target_operation_mode = 1]
                     [] OTHER -> s3
         IN  \* "Clear change_in_progress when external change is detected"
             IF s4.change_in_progress
             THEN [s4 EXCEPT !.change_in_progress = FALSE,
                             !.toggle_heat_target = FALSE,
                             !.mode_change_started = NULL,
                             !.resend_attempt = 0]
             ELSE s4

\* The part of _process_state_changes after the wood-mode block.  Returns
\* the coordinator and the data dictionary with its detection flags.
ProcessStateChangesRest(s0, d) ==
    LET s == ExitWoodMode(s0, d)
    IN  CASE s.previous_heatlevel = NULL ->
               \* "Initialize previous values on first run"
               [s |-> UpdatePrevious(s, d),
                d |-> [d EXCEPT !.app_change_detected = FALSE]]
          [] s.previous_heatlevel # NULL /\ ExternalStop(s, d) ->
               [s |-> ClearOnExternalStop(s, d),
                d |-> [d EXCEPT !.auto_stop_detected = TRUE,
                                !.app_change_detected = FALSE]]
          [] OTHER ->
               [s |-> UpdatePrevious(DetectExternalChanges(s, d), d),
                d |-> [d EXCEPT !.app_change_detected = AppChangeDetected(s, d)]]

\* ------------------------------------------------------------------------
\* _check_mode_change_progress and _resend_pending_commands
\* ------------------------------------------------------------------------
\* "Check if change is complete": every non-null target equals telemetry.
change_complete(s, d) ==
    /\ s.target_heatlevel # NULL => d.heatlevel = s.target_heatlevel
    /\ s.target_temperature # NULL => d.boiler_ref = s.target_temperature
    /\ s.target_operation_mode # NULL => d.operation_mode = s.target_operation_mode

\* ClearPending as it would be if the heat-level target were forgotten.
ClearPendingKeepsHeatlevel(s) ==
    [s EXCEPT !.change_in_progress = FALSE,
              !.toggle_heat_target = FALSE,
              !.mode_change_started = NULL,
              !.resend_attempt = 0,
              !.target_temperature = NULL,
              !.target_operation_mode = NULL]

ClearPending(s) ==
    [s EXCEPT !.change_in_progress = FALSE,
              !.toggle_heat_target = FALSE,
              !.mode_change_started = NULL,
              !.resend_attempt = 0,
              !.target_heatlevel = NULL,
              !.target_temperature = NULL,
              !.target_operation_mode = NULL]

\* The poll looks at the pending change at all.
ChecksProgress(s, d) ==
    s.change_in_progress /\ d.hasOperating /\ d.hasStatus

\* "Try resending after TIMEOUT_COMMAND_RESPONSE"
\* The resend condition without the limit on attempts.
ShouldResendUnlimited(s, d) ==
    /\ ChecksProgress(s, d) /\ ~change_complete(s, d)
    /\ s.mode_change_started # NULL
    /\ Elapsed(s.mode_change_started) > TIMEOUT_COMMAND_RESPONSE

ShouldResend(s, d) ==
    /\ ChecksProgress(s, d) /\ ~change_complete(s, d)
    /\ s.mode_change_started # NULL
    /\ Elapsed(s.mode_change_started) > TIMEOUT_COMMAND_RESPONSE
    /\ s.resend_attempt < s.max_resend_attempts

\* "Final timeout - give up"
ShouldGiveUp(s, d) ==
    /\ ChecksProgress(s, d) /\ ~change_complete(s, d)
    /\ s.mode_change_started # NULL
    /\ ~ShouldResend(s, d)
    /\ Elapsed(s.mode_change_started) > TIMEOUT_CHANGE_IN_PROGRESS

\* _check_mode_change_progress as it would be without the final timeout.
CheckModeChangeProgressNoGiveUp(s, d) ==
    CASE ChecksProgress(s, d) /\ change_complete(s, d) -> ClearPending(s)
      [] ShouldResend(s, d) -> [s EXCEPT !.resend_attempt = @ + 1]
      [] OTHER -> s

\* _check_mode_change_progress up to the call of _resend_pending_commands.
CheckModeChangeProgress(s, d) ==
    CASE ChecksProgress(s, d) /\ change_complete(s, d) -> ClearPending(s)
      [] ShouldResend(s, d) -> [s EXCEPT !.resend_attempt = @ + 1]
      [] ShouldGiveUp(s, d) -> ClearPending(s)
      [] OTHER -> s

\* _resend_pending_commands before its sleep: the operation mode.
ResendMode(s) ==
    IF s.target_operation_mode # NULL
    THEN <<Cmd("regulation.operation_mode", s.target_operation_mode)>>
    ELSE <<>>

\* _resend_pending_commands after its sleep: heatlevel, then temperature.
ResendValues(s) ==
    (IF s.target_heatlevel # NULL
     THEN <<Cmd("regulation.fixed_power", POWER_HEAT_LEVEL_MAP(s.target_heatlevel))>>
     ELSE <<>>)
    \o (IF s.target_temperature # NULL
        THEN <<Cmd("boiler.temp", s.target_temperature)>>
        ELSE <<>>)

\* Back in _check_mode_change_progress: restamp the start time.
AfterResend(s) == [s EXCEPT !.mode_change_started = Now]

\* ------------------------------------------------------------------------
\* Control methods.  Each returns the coordinator, the value returned to the
\* caller and the commands handed to _async_send_command; ok is whether
\* _async_send_command succeeded.
\* ------------------------------------------------------------------------
Result(s, ret, sent) == [s |-> s, ret |-> ret, sent |-> sent]

async_start_stove(s, ok) ==
    Result(IF ok THEN [s EXCEPT !.change_in_progress = TRUE,
                                !.mode_change_started = Now]
                 ELSE s,
           ok, <<Cmd("misc.start", 1)>>)

async_stop_stove(s, ok) ==
    Result(IF ok THEN [s EXCEPT !.change_in_progress = TRUE,
                                !.mode_change_started = Now]
                 ELSE s,
           ok, <<Cmd("misc.stop", 1)>>)

\* The check as it would be with the lower end of the range off by one.
ValidHeatlevelFromZero(heatlevel) == heatlevel \in {0, 1, 2, 3}

\* async_set_heatlevel rejects the value before it touches anything.
ValidHeatlevel(heatlevel) == heatlevel \in {1, 2, 3}

\* async_set_heatlevel up to its sleep: targets, then "STEP 1: Set mode FIRST".
SetHeatlevelMode(s, heatlevel, ok) ==
    LET s1 == [s EXCEPT !.target_heatlevel = heatlevel,
                        !.target_operation_mode = 0,
                        !.change_in_progress = TRUE,
                        !.mode_change_started = Now,
                        !.resend_attempt = 0]
    IN  Result(IF ok THEN s1
                     ELSE [s1 EXCEPT !.change_in_progress = FALSE,
                                     !.target_heatlevel = NULL,
                                     !.target_operation_mode = NULL],
               ok, <<Cmd("regulation.operation_mode", 0)>>)

\* async_set_heatlevel after its sleep: "STEP 2: Set heatlevel value".
SetHeatlevelValue(s, heatlevel, ok) ==
    Result(IF ok THEN s
                 ELSE [s EXCEPT !.change_in_progress = FALSE,
                                !.target_heatlevel = NULL,
                                !.target_operation_mode = NULL],
           ok, <<Cmd("regulation.fixed_power", POWER_HEAT_LEVEL_MAP(heatlevel))>>)

\* async_set_temperature up to its sleep.
SetTemperatureMode(s, temperature, ok) ==
    LET s1 == [s EXCEPT !.target_temperature = temperature,
                        !.target_operation_mode = 1,
                        !.change_in_progress = TRUE,
                        !.mode_change_started = Now,
                        !.resend_attempt = 0]
    IN  Result(IF ok THEN s1
                     ELSE [s1 EXCEPT !.change_in_progress = FALSE,
                                     !.target_temperature = NULL,
                                     !.target_operation_mode = NULL],
               ok, <<Cmd("regulation.operation_mode", 1)>>)

\* async_set_temperature after its sleep.
SetTemperatureValue(s, temperature, ok) ==
    Result(IF ok THEN s
                 ELSE [s EXCEPT !.change_in_progress = FALSE,
                                !.target_temperature = NULL,
                                !.target_operation_mode = NULL],
           ok, <<Cmd("boiler.temp", temperature)>>)

ValidOperationMode(mode) == mode \in {0, 1, 2}

async_set_operation_mode(s, mode, ok) ==
    IF ~ValidOperationMode(mode) THEN Result(s, FALSE, <<>>)
    ELSE Result([s EXCEPT !.target_operation_mode = mode,
                          !.change_in_progress = TRUE,
                          !.mode_change_started = Now,
                          !.resend_attempt = 0],
                ok, <<Cmd("regulation.operation_mode", mode)>>)

async_toggle_mode(s, dat, ok) ==
    IF ~dat.hasStatus THEN Result(s, FALSE, <<>>)
    ELSE
      LET new_mode == IF dat.operation_mode = 0 THEN 1 ELSE 0
          s1 == [s EXCEPT !.toggle_heat_target = TRUE,
                          !.change_in_progress = TRUE,
                          !.mode_change_started = Now,
                          !.resend_attempt = 0,
                          !.target_operation_mode = new_mode]
          s2 == CASE new_mode = 0 /\ dat.hasOperating ->
                       [s1 EXCEPT !.target_heatlevel = dat.heatlevel]
                  [] new_mode = 1 /\ dat.hasOperating ->
                       [s1 EXCEPT !.target_temperature = dat.boiler_ref]
                  [] OTHER -> s1
      IN  Result(IF ok THEN s2
                       ELSE [s2 EXCEPT !.change_in_progress = FALSE,
                                       !.toggle_heat_target = FALSE,
                                       !.mode_change_started = NULL,
                                       !.target_operation_mode = NULL,
                                       !.target_heatlevel = NULL,
                                       !.target_temperature = NULL],
                 ok, <<Cmd("regulation.operation_mode", new_mode)>>)

\* ------------------------------------------------------------------------
\* Consumption accounting: _calculate_pellet_levels, _check_pellet_levels,
\* refill_pellets, reset_refill_counter
\* ------------------------------------------------------------------------
\* consumption_change: the reading against the last seen value, which is the
\* reading itself when no value has been seen yet ("Initialize on first run").
\* consumption_change as it would be with a first baseline of zero.
consumption_change_from_zero(s, d) ==
    d.day - (IF s.has_last_consumption_day_value
             THEN s.last_consumption_day_value ELSE 0)

consumption_change(s, d) ==
    d.day - (IF s.has_last_consumption_day_value
             THEN s.last_consumption_day_value ELSE d.day)

\* CountConsumption as it would be if a rollover counted the new reading.
CountConsumptionCountsRollover(s, d) ==
    LET change == consumption_change(s, d)
        s1 == [s EXCEPT !.has_last_consumption_day_value = TRUE,
                        !.last_consumption_day_value = d.day]
    IN  CASE change < 0 ->
               [s1 EXCEPT !.pellets_consumed = @ + d.day,
                          !.pellets_consumed_total = @ + d.day]
          [] change > 0 ->
               [s1 EXCEPT !.pellets_consumed = @ + change,
                          !.pellets_consumed_total = @ + change]
          [] OTHER -> s1

CountConsumption(s, d) ==
    LET change == consumption_change(s, d)
        s1 == [s EXCEPT !.has_last_consumption_day_value = TRUE,
                        !.last_consumption_day_value =
                            IF s.has_last_consumption_day_value THEN @ ELSE d.day]
    IN  CASE change < 0 ->
               \* "Handle midnight reset"
               [s1 EXCEPT !.last_consumption_day_value = d.day]
          [] change > 0 ->
               [s1 EXCEPT !.pellets_consumed = @ + change,
                          !.pellets_consumed_total = @ + change,
                          !.last_consumption_day_value = d.day]
          [] OTHER -> s1

\* percentage_remaining <= level, with percentage = amount / capacity * 100
\* (0 when the capacity is not positive).
PercentageAtMost(amount, capacity, level) ==
    IF capacity > 0 THEN amount * 100 <= level * capacity ELSE 0 <= level

_calculate_pellet_levels(s0, d) ==
    IF ~d.hasConsumption THEN [s |-> s0, d |-> d]
    ELSE LET s == CountConsumption(s0, d)
         IN  [s |-> s,
              d |-> [d EXCEPT !.hasPellets = TRUE,
                              !.capacity = s.pellet_capacity,
                              !.amount = Max(0, s.pellet_capacity - s.pellets_consumed)]]

\* "Check for low pellet notification"
LowPelletCheck(s, d) ==
    CASE PercentageAtMost(d.amount, d.capacity, s.notification_level)
           /\ ~s.low_pellet_notification_sent ->
             [s |-> [s EXCEPT !.low_pellet_notification_sent = TRUE],
              d |-> [d EXCEPT !.low_pellet_alert = TRUE]]
      [] ~PercentageAtMost(d.amount, d.capacity, s.notification_level) ->
             [s |-> [s EXCEPT !.low_pellet_notification_sent = FALSE],
              d |-> [d EXCEPT !.low_pellet_alert = FALSE]]
      [] OTHER -> [s |-> s, d |-> d]

\* ShouldAutoShutdown as it would be with no latch.
ShouldAutoShutdownEveryPoll(s, d) ==
    /\ d.hasPellets
    /\ s.auto_shutdown_enabled
    /\ PercentageAtMost(d.amount, d.capacity, s.shutdown_level)

\* "Check for auto-shutdown": the poll calls async_stop_stove.
ShouldAutoShutdown(s, d) ==
    /\ d.hasPellets
    /\ s.auto_shutdown_enabled
    /\ PercentageAtMost(d.amount, d.capacity, s.shutdown_level)
    /\ ~s.shutdown_notification_sent

_check_pellet_levels(s0, d0, ok) ==
    IF ~d0.hasPellets THEN [s |-> s0, d |-> d0, sent |-> <<>>]
    ELSE
      LET low == LowPelletCheck(s0, d0)
          s == low.s
          d == low.d
      IN  CASE ShouldAutoShutdown(s, d) ->
                 LET stop == async_stop_stove(
                                [s EXCEPT !.shutdown_notification_sent = TRUE], ok)
                 IN  [s |-> stop.s,
                      d |-> [d EXCEPT !.shutdown_alert = TRUE],
                      sent |-> stop.sent]
            [] ~ShouldAutoShutdown(s, d)
                 /\ ~PercentageAtMost(d.amount, d.capacity, s.shutdown_level) ->
                 [s |-> [s EXCEPT !.shutdown_notification_sent = FALSE],
                  d |-> [d EXCEPT !.shutdown_alert = FALSE],
                  sent |-> <<>>]
            [] OTHER -> [s |-> s, d |-> d, sent |-> <<>>]

\* refill_pellets as it would be if it reset the cleaning counter as well.
refill_pellets_resets_total(s, dat) ==
    [s EXCEPT !.consumption_at_refill = IF dat.hasConsumption THEN dat.day ELSE 0,
              !.pellets_consumed = 0,
              !.pellets_consumed_total = 0,
              !.low_pellet_notification_sent = FALSE,
              !.shutdown_notification_sent = FALSE]

refill_pellets(s, dat) ==
    [s EXCEPT !.consumption_at_refill = IF dat.hasConsumption THEN dat.day ELSE 0,
              !.pellets_consumed = 0,
              !.low_pellet_notification_sent = FALSE,
              !.shutdown_notification_sent = FALSE]

reset_refill_counter(s) == [s EXCEPT !.pellets_consumed_total = 0]

\* ------------------------------------------------------------------------
\* Alert evaluator: _check_temperature_alerts
\* ------------------------------------------------------------------------
HighSmokeCondition(s, d) == d.smoke_temp >= s.high_smoke_temp_threshold

\* The start time the duration is measured from: stamped now when no timer
\* is running.
HighSmokeStart(s) ==
    IF s.high_smoke_temp_start_time = NULL THEN Now
    ELSE s.high_smoke_temp_start_time

HighSmokeElapsed(s) ==
    Elapsed(HighSmokeStart(s)) >= s.high_smoke_duration_threshold

HighSmokeFires(s, d) ==
    HighSmokeCondition(s, d) /\ HighSmokeElapsed(s) /\ ~s.high_smoke_alert_sent

\* HighSmokeAlert as it would be if a revert left the timer running.
HighSmokeAlertKeepsTimer(s, d) ==
    IF HighSmokeCondition(s, d)
    THEN [s EXCEPT !.high_smoke_temp_start_time = HighSmokeStart(s),
                   !.high_smoke_alert_active = IF HighSmokeElapsed(s) THEN TRUE ELSE @,
                   !.high_smoke_alert_sent = IF HighSmokeElapsed(s) THEN TRUE ELSE @]
    ELSE [s EXCEPT !.high_smoke_alert_active = FALSE,
                   !.high_smoke_alert_sent =
                       IF d.smoke_temp < s.high_smoke_temp_threshold - 20
                       THEN FALSE ELSE @]

HighSmokeAlert(s, d) ==
    IF HighSmokeCondition(s, d)
    THEN [s EXCEPT !.high_smoke_temp_start_time = HighSmokeStart(s),
                   !.high_smoke_alert_active = IF HighSmokeElapsed(s) THEN TRUE ELSE @,
                   !.high_smoke_alert_sent = IF HighSmokeElapsed(s) THEN TRUE ELSE @]
    ELSE \* "Temperature dropped below threshold"
         [s EXCEPT !.high_smoke_temp_start_time = NULL,
                   !.high_smoke_alert_active = FALSE,
                   !.high_smoke_alert_sent =
                       IF d.smoke_temp < s.high_smoke_temp_threshold - 20
                       THEN FALSE ELSE @]

LowWoodCondition(s, d) ==
    is_in_wood_mode(d) /\ d.smoke_temp <= s.low_wood_temp_threshold

LowWoodStart(s) ==
    IF s.low_wood_temp_start_time = NULL THEN Now
    ELSE s.low_wood_temp_start_time

LowWoodElapsed(s) ==
    Elapsed(LowWoodStart(s)) >= s.low_wood_duration_threshold

LowWoodFires(s, d) ==
    LowWoodCondition(s, d) /\ LowWoodElapsed(s) /\ ~s.low_wood_alert_sent

\* LowWoodAlert as it would be with no hysteresis: the latch is released as
\* soon as the temperature is above the threshold.
LowWoodAlertNoHysteresis(s, d) ==
    CASE LowWoodCondition(s, d) ->
           [s EXCEPT !.low_wood_temp_start_time = LowWoodStart(s),
                     !.low_wood_alert_active = IF LowWoodElapsed(s) THEN TRUE ELSE @,
                     !.low_wood_alert_sent = IF LowWoodElapsed(s) THEN TRUE ELSE @]
      [] is_in_wood_mode(d) /\ ~LowWoodCondition(s, d) ->
           [s EXCEPT !.low_wood_temp_start_time = NULL,
                     !.low_wood_alert_active = FALSE,
                     !.low_wood_alert_sent = FALSE]
      [] OTHER ->
           [s EXCEPT !.low_wood_temp_start_time = NULL,
                     !.low_wood_alert_active = FALSE]

\* LowWoodAlert as it would be if leaving wood mode reset the timer and
\* left the alert active.
LowWoodAlertKeepsActive(s, d) ==
    CASE LowWoodCondition(s, d) ->
           [s EXCEPT !.low_wood_temp_start_time = LowWoodStart(s),
                     !.low_wood_alert_active = IF LowWoodElapsed(s) THEN TRUE ELSE @,
                     !.low_wood_alert_sent = IF LowWoodElapsed(s) THEN TRUE ELSE @]
      [] is_in_wood_mode(d) /\ ~LowWoodCondition(s, d) ->
           [s EXCEPT !.low_wood_temp_start_time = NULL,
                     !.low_wood_alert_active = FALSE,
                     !.low_wood_alert_sent =
                         IF d.smoke_temp > s.low_wood_temp_threshold + 10
                         THEN FALSE ELSE @]
      [] OTHER ->
           [s EXCEPT !.low_wood_temp_start_time = NULL]

LowWoodAlert(s, d) ==
    CASE LowWoodCondition(s, d) ->
           [s EXCEPT !.low_wood_temp_start_time = LowWoodStart(s),
                     !.low_wood_alert_active = IF LowWoodElapsed(s) THEN TRUE ELSE @,
                     !.low_wood_alert_sent = IF LowWoodElapsed(s) THEN TRUE ELSE @]
      [] is_in_wood_mode(d) /\ ~LowWoodCondition(s, d) ->
           \* "Temperature rose above threshold"
           [s EXCEPT !.low_wood_temp_start_time = NULL,
                     !.low_wood_alert_active = FALSE,
                     !.low_wood_alert_sent =
                         IF d.smoke_temp > s.low_wood_temp_threshold + 10
                         THEN FALSE ELSE @]
      [] OTHER ->
           \* "Not in wood mode - reset tracking"
           [s EXCEPT !.low_wood_temp_start_time = NULL,
                     !.low_wood_alert_active = FALSE]

_check_temperature_alerts(s, d) ==
    IF ~d.hasOperating THEN [s |-> s, d |-> d]
    ELSE [s |-> LowWoodAlert(HighSmokeAlert(s, d), d),
          d |-> [d EXCEPT !.high_smoke_temp_triggered = HighSmokeFires(s, d),
                          !.low_wood_temp_triggered = LowWoodFires(s, d)]]

\* ------------------------------------------------------------------------
\* _async_update_data: one poll cycle.  A cycle runs to its end in one step
\* unless it reaches an asyncio.sleep (in _async_resume_pellet_operation, in
\* async_set_heatlevel called from there, in _resend_pending_commands); then
\* it is suspended with pc naming the sleep and resumes in a later step.
\* ------------------------------------------------------------------------
Cycle(s, d, pc, sent) == [s |-> s, d |-> d, pc |-> pc, sent |-> sent]

\* The stages of a cycle are chained through one-element sets, so that each
\* stage is evaluated once and its result handed on as a value.

\* "Check temperature alerts", the last stage: chk is what
\* _check_pellet_levels left.
CycleAlerts(chk, sent) ==
    LET alerts == _check_temperature_alerts(chk.s, chk.d)
    IN  Cycle(alerts.s, alerts.d, "idle", sent \o chk.sent)

\* "Check for low pellet levels": calc is what _calculate_pellet_levels left.
CyclePelletCheck(calc, sent, okStop) ==
    CHOOSE c \in { CycleAlerts(chk, sent) :
                     chk \in {_check_pellet_levels(calc.s, calc.d, okStop)} } : TRUE

\* From "Calculate pellet levels" to the end of the cycle.  okStop is the
\* outcome of the stop command, should the auto-shutdown send one.
CycleTail(s, d, sent, okStop) ==
    CHOOSE c \in { CyclePelletCheck(calc, sent, okStop) :
                     calc \in {_calculate_pellet_levels(s, d)} } : TRUE

\* A resend that sends the values along with the mode, before its sleep.
CycleProgressValuesAtOnce(psc, sent, okStop) ==
    LET chk == CheckModeChangeProgress(psc.s, psc.d)
    IN  IF ShouldResend(psc.s, psc.d)
        THEN Cycle(chk, psc.d, "resend_sleep",
                   sent \o ResendMode(chk) \o ResendValues(chk))
        ELSE CycleTail(chk, psc.d, sent, okStop)

\* _check_mode_change_progress, and on to the tail unless a resend sleeps:
\* psc is what _process_state_changes left.
CycleProgress(psc, sent, okStop) ==
    LET chk == CheckModeChangeProgress(psc.s, psc.d)
    IN  IF ShouldResend(psc.s, psc.d)
        THEN Cycle(chk, psc.d, "resend_sleep", sent \o ResendMode(chk))
        ELSE CycleTail(chk, psc.d, sent, okStop)

\* From "Exiting wood mode" in _process_state_changes to the end of the
\* cycle.
CycleChanges(s, d, sent, okStop) ==
    CHOOSE c \in { CycleProgress(psc, sent, okStop) :
                     psc \in {IF d.hasOperating THEN ProcessStateChangesRest(s, d)
                              ELSE [s |-> s, d |-> d]} } : TRUE

\* _process_state_changes after a successful _async_resume_pellet_operation.
CycleResumed(s, d, sent, okStop) ==
    CycleChanges([s EXCEPT !.auto_resume_sent = TRUE],
                 [d EXCEPT !.auto_resume_commanded = TRUE], sent, okStop)

\* The start of a cycle.  okStart is the outcome of the start command,
\* should the wood-mode auto-resume send one.
CycleStart(s, d, okStart, okStop) ==
    IF ~d.hasOperating THEN CycleChanges(s, d, <<>>, okStop)
    ELSE IF ShouldAutoResume(s, d)
         THEN LET start == async_start_stove(s, okStart)
              IN  IF okStart
                  THEN Cycle(start.s, d, "resume_sleep", start.sent)
                  ELSE CycleChanges(start.s, d, start.sent, okStop)
         ELSE CycleChanges(EnterWoodMode(s, d), d, <<>>, okStop)

\* _async_resume_pellet_operation after its sleep: "Restore previous
\* operation mode and settings" through async_set_heatlevel, up to the sleep
\* of that call.
CycleRestore(s, d, okMode, okStop) ==
    IF s.pre_wood_mode_operation_mode = 0 /\ ValidHeatlevel(s.pre_wood_mode_heatlevel)
    THEN LET set == SetHeatlevelMode(s, s.pre_wood_mode_heatlevel, okMode)
         IN  IF okMode
             THEN Cycle(set.s, d, "resume_settle", set.sent)
             ELSE CycleResumed(set.s, d, set.sent, okStop)
    ELSE CycleResumed(s, d, <<>>, okStop)

\* async_set_heatlevel, called from the resume, after its sleep.
CycleRestoreValue(s, d, okValue, okStop) ==
    LET set == SetHeatlevelValue(s, s.pre_wood_mode_heatlevel, okValue)
    IN  CycleResumed(set.s, d, set.sent, okStop)

\* _resend_pending_commands after its sleep, then the restamp and the tail.
CycleResent(s, d, okStop) ==
    CycleTail(AfterResend(s), d, ResendValues(s), okStop)

\* data["status"] is read although the status fetch failed: the cycle raises
\* and ends as UpdateFailed.
CycleRaises(d) == d.hasOperating /\ ~d.hasStatus

\* ------------------------------------------------------------------------
\* Depletion predictor: predict_pellet_depletion up to the learning-status
\* check
\* ------------------------------------------------------------------------
\* _get_learning_status()["sufficient_data"]: ten hours at every heat level,
\* at half an hour an observation, five waiting periods, and a heating or
\* cooling bucket written in the last 60 days.
RecentData(ld) ==
    \/ \E k \in DOMAIN ld.heating_observations :
           ld.heating_observations[k].last_updated.days <= 60
    \/ \E k \in DOMAIN ld.cooling_observations :
           ld.cooling_observations[k].last_updated.days <= 60

sufficient_data(ld) ==
    /\ \A heatlevel \in 1..3 :
           ld.consumption_observations[heatlevel].count * 5 >= 10 * 10
    /\ SumCounts(ld.cooling_observations, DOMAIN ld.cooling_observations) >= 5
    /\ RecentData(ld)

\* self.data.get("pellets", {}).get("amount", 0)
pellets_remaining(d) == IF d.hasPellets THEN d.amount ELSE 0

\* What a prediction reports: its status ("none" when the method returns
\* None) and time_remaining_seconds (NULL when the dict has no such key).
Prediction(status, time_remaining_seconds) ==
    [status |-> status, time_remaining_seconds |-> time_remaining_seconds]

\* _get_consumption_rate: the learned average of the heat level once it has
\* an observation, else the default.
_get_consumption_rate(ld, heatlevel) ==
    IF heatlevel \in DOMAIN ld.consumption_observations
       /\ ld.consumption_observations[heatlevel].count >= 1
    THEN ld.consumption_observations[heatlevel].avg_consumption_rate
    ELSE DefaultConsumptionRate(heatlevel)

\* int(x) of a fraction that is not negative.
Floor(f) == f.num \div f.den

Minus(a, b) == Plus(a, Times(Whole(0 - 1), b))

\* "If stove is OFF or just started, account for startup consumption"
NeedsStartup(d) == d.state \notin {"5", "32"}

\* The heat-level calculation as it would be if the startup consumption were
\* deducted in every state.
HeatlevelPredictionDeductsAlways(s, d) ==
    LET consumption_rate == _get_consumption_rate(s.learning_data, d.heatlevel)
        pellets_for_calculation ==
            Minus(Whole(pellets_remaining(d)),
                  s.learning_data.startup_observations.avg_consumption)
    IN CASE consumption_rate.num <= 0 -> Prediction("insufficient_data", NULL)
         [] pellets_for_calculation.num <= 0 -> Prediction("empty", 0)
         [] OTHER ->
              Prediction("ok", Floor(Times(Over(pellets_for_calculation,
                                                consumption_rate),
                                           Whole(3600))))

\* predict_pellet_depletion, "HEAT LEVEL MODE (Simple)".
HeatlevelPrediction(s, d) ==
    LET consumption_rate == _get_consumption_rate(s.learning_data, d.heatlevel)
        pellets_for_calculation ==
            IF NeedsStartup(d)
            THEN Minus(Whole(pellets_remaining(d)),
                       s.learning_data.startup_observations.avg_consumption)
            ELSE Whole(pellets_remaining(d))
    IN CASE consumption_rate.num <= 0 -> Prediction("insufficient_data", NULL)
         [] NeedsStartup(d) /\ pellets_for_calculation.num <= 0 ->
              Prediction("empty", 0)
         [] OTHER ->
              Prediction("ok", Floor(Times(Over(pellets_for_calculation,
                                                consumption_rate),
                                           Whole(3600))))

\* A variant that looks at the learning status before the fuel.
predict_checks_data_first(s, d) ==
    CASE ~d.hasOperating \/ ~d.hasStatus -> Prediction("none", NULL)
      [] d.operation_mode = 2 -> Prediction("wood_mode", NULL)
      [] ~sufficient_data(s.learning_data) ->
             Prediction("insufficient_data", NULL)
      [] pellets_remaining(d) <= 0 -> Prediction("empty", 0)
      [] d.operation_mode = 0 -> HeatlevelPrediction(s, d)
      [] OTHER -> Prediction("predicted", NULL)

\* predict_pellet_depletion; "predicted" stands for the result of the
\* temperature-mode simulation.
predict_pellet_depletion(s, d) ==
    CASE ~d.hasOperating \/ ~d.hasStatus -> Prediction("none", NULL)
      [] d.operation_mode = 2 -> Prediction("wood_mode", NULL)
      [] pellets_remaining(d) <= 0 -> Prediction("empty", 0)
      [] ~sufficient_data(s.learning_data) ->
             Prediction("insufficient_data", NULL)
      [] d.operation_mode = 0 -> HeatlevelPrediction(s, d)
      [] OTHER -> Prediction("predicted", NULL)

\* ------------------------------------------------------------------------
\* History variables
\* ------------------------------------------------------------------------
InitGhost == [
    readings |-> <<>>,          \* the daily-counter readings, oldest first
    last_reading |-> NULL,      \* the latest of them
    positive_deltas |-> 0,      \* sum of the rises between readings since refill
    no_reset |-> TRUE,          \* neither refill nor cleaning reset so far
    high_streak |-> NULL,       \* how long every poll has seen the smoke condition
    low_streak |-> NULL,        \* the same for the low-wood condition
    calls |-> 0,                \* control calls issued so far, where counted
    \* what predict_pellet_depletion returned when it was last asked
    prediction |-> [status |-> "unasked", time_remaining_seconds |-> NULL],
    reloaded |-> FALSE,         \* a new coordinator has loaded the store
    confidence |-> "none",      \* the confidence of the latest prediction
    classified |-> FALSE,       \* whether _calculate_confidence_level gave it
    \* what held when it was given: the learning status, the mode and the
    \* cycles of the prediction, and what the outdoor sensor returned
    sufficient_data |-> FALSE,
    operation_mode |-> NULL,
    cycles_predicted |-> NULL,
    external_temperature |-> NULL,
    \* what _track_learning_state_changes recorded in the latest poll, what
    \* that poll saw, and the operation modes the polls have seen since the
    \* heating session was opened
    recorded |-> <<>>,
    tracked |-> [operation_mode |-> NULL, state |-> "none", target_held |-> FALSE,
                 mode_steady |-> FALSE, entered_waiting |-> FALSE],
    heating_modes |-> {},
    \* the wood-mode episode: whether the latest poll with operating data
    \* saw state 9, the operation mode that the first poll of the episode
    \* saw, the resume sequences that the polls of the episode have started
    \* with a successful start command, and whether each was started with
    \* auto-resume enabled, from heat-level mode and at 110 degrees or less
    episode |-> [open |-> FALSE, mode_on_entry |-> NULL, resumes |-> 0,
                 justified |-> TRUE],
    \* the fetches of the latest poll cycle ("fetched", "failed" or
    \* "skipped"), what the snapshot before it held, whether the cycle ran
    \* the discovery and whether it raised UpdateFailed
    fetch |-> [status |-> "none", operating |-> "none", network |-> "none",
               consumption |-> "none", had_network |-> FALSE,
               had_consumption |-> FALSE, day_before |-> 0, snapshot_kept |-> FALSE,
               was_undiscovered |-> FALSE, discovered |-> FALSE, failed |-> FALSE],
    \* what the latest control call, and the latest poll cycle, have done so
    \* far: the commands handed to _async_send_command, and the sleeps
    call_log |-> <<>>,
    poll_log |-> <<>>,
    \* where calls overlap: every command sent since nothing was in flight,
    \* in the order of sending, with the coroutine that sent it
    wire |-> <<>>
]

Streak(streak, condition) ==
    IF condition THEN (IF streak = NULL THEN 0 ELSE streak) ELSE NULL

\* asyncio.sleep in a log.
Sleep == [path |-> "asyncio.sleep", value |-> NULL]

\* The log of a coroutine after a step that began at pc_before, handed sent
\* to _async_send_command and ended at pc_after.
Logged(log, pc_before, sent, pc_after) ==
    (IF pc_before = "idle" THEN <<>> ELSE log)
    \o sent \o (IF pc_after = "idle" THEN <<>> ELSE <<Sleep>>)

\* No coroutine is suspended between two commands.
Quiet == poll.pc = "idle" /\ call.pc = "idle" /\ call.other.pc = "idle"

\* The wire after the coroutine by has handed sent to _async_send_command.
Wired(by, sent) ==
    IF env.scenario # "overlap" THEN ghost.wire
    ELSE (IF Quiet THEN <<>> ELSE ghost.wire)
         \o [i \in 1..Len(sent) |-> [by |-> by, cmd |-> sent[i]]]

\* The wood-mode episode after the step of cycle c, which found the
\* coordinator as s.
EpisodeAfter(s, c) ==
    LET e == ghost.episode
        entered == IF ~e.open
                   THEN [open |-> TRUE, mode_on_entry |-> c.d.operation_mode,
                         resumes |-> 0, justified |-> TRUE]
                   ELSE e
    IN  CASE poll.pc # "idle" \/ ~c.d.hasOperating -> e
          [] c.d.state # "9" -> [e EXCEPT !.open = FALSE]
          [] c.pc = "resume_sleep" ->
               [entered EXCEPT !.resumes = @ + 1,
                               !.justified = /\ @
                                             /\ s.auto_resume_after_wood
                                             /\ entered.mode_on_entry = 0
                                             /\ c.d.smoke_temp <= 110]
          [] OTHER -> entered

\* s is the coordinator before the step, c the cycle the step ran.
GhostAfterCycle(s, c) ==
    [poll_log |-> Logged(ghost.poll_log, poll.pc, c.sent, c.pc),
     wire |-> Wired("poll", c.sent),
     episode |-> EpisodeAfter(s, c)] @@
    IF c.pc # "idle" \/ ~env.history THEN ghost
    ELSE LET g1 == IF c.d.hasConsumption
                   THEN [ghost EXCEPT
                           !.readings = Append(@, c.d.day),
                           !.last_reading = c.d.day,
                           !.positive_deltas =
                               IF ghost.last_reading # NULL /\ c.d.day > ghost.last_reading
                               THEN @ + (c.d.day - ghost.last_reading) ELSE @]
                   ELSE ghost
         IN  IF c.d.hasOperating
             THEN [g1 EXCEPT
                     !.high_streak = Streak(@, HighSmokeCondition(s, c.d)),
                     !.low_streak = Streak(@, LowWoodCondition(s, c.d))]
             ELSE g1

GhostAfterCall(r, pc_after) ==
    [ghost EXCEPT !.calls = IF env.max_calls # NULL THEN @ + 1 ELSE @,
                  !.call_log = Logged(@, "idle", r.sent, pc_after),
                  !.wire = Wired("call", r.sent)]

\* ------------------------------------------------------------------------
\* Steps
\* ------------------------------------------------------------------------
PollIdle == [pc |-> "idle", d |-> EmptyData]
\* No call is suspended; other is a call made while call is suspended.
NoCall == [pc |-> "idle", arg |-> NULL]
CallIdle == [pc |-> "idle", arg |-> NULL, other |-> NoCall]

\* A step of the poll coroutine that ran cycle c.
PollStep(c) ==
    /\ self' = c.s
    /\ poll' = IF c.pc = "idle" THEN PollIdle ELSE [pc |-> c.pc, d |-> c.d]
    /\ data' = IF c.pc = "idle" THEN c.d ELSE data
    /\ ghost' = GhostAfterCycle(self, c)
    /\ UNCHANGED <<call, env>>

\* The bounds on what the stove burns in a run.
WithinBounds(d) ==
    d.hasConsumption =>
        IF env.history THEN Len(ghost.readings) < MaxReadings
        ELSE self.pellets_consumed_total + Max(0, consumption_change(self, d)) <= MaxConsumed

\* A poll cycle starts with telemetry t.
PollStart(t, okStart, okStop) ==
    /\ poll.pc = "idle"
    /\ \E d \in {FetchAllData(t, data)} :
        /\ WithinBounds(d)
        /\ ~CycleRaises(d)
        /\ \E c \in {CycleStart(self, d, okStart, okStop)} : PollStep(c)

\* A poll cycle raises: the previous snapshot and the coordinator stay.
PollFails(t) ==
    /\ poll.pc = "idle"
    /\ CycleRaises(FetchAllData(t, data))
    /\ UNCHANGED vars

PollRestore(okMode, okStop) ==
    /\ poll.pc = "resume_sleep"
    /\ \E c \in {CycleRestore(self, poll.d, okMode, okStop)} : PollStep(c)

PollRestoreValue(okValue, okStop) ==
    /\ poll.pc = "resume_settle"
    /\ \E c \in {CycleRestoreValue(self, poll.d, okValue, okStop)} : PollStep(c)

PollResent(okStop) ==
    /\ poll.pc = "resend_sleep"
    /\ \E c \in {CycleResent(self, poll.d, okStop)} : PollStep(c)

\* A control call is made: none is suspended, and the run allows one more.
MayCall ==
    /\ call.pc = "idle"
    /\ env.max_calls # NULL => ghost.calls < env.max_calls

\* A control call that returns in this step with result r.
CallReturns(r) ==
    /\ self' = r.s
    /\ call' = [call EXCEPT !.pc = "idle", !.arg = NULL]
    /\ ghost' = GhostAfterCall(r, "idle")
    /\ UNCHANGED <<data, poll, env>>

\* A control call that reaches its settle delay after result r.
CallSleeps(op, arg, r) ==
    /\ self' = r.s
    /\ call' = [call EXCEPT !.pc = op, !.arg = arg]
    /\ ghost' = GhostAfterCall(r, op)
    /\ UNCHANGED <<data, poll, env>>

\* A suspended control call resumes after its settle delay and returns.
CallResumes(r) ==
    /\ self' = r.s
    /\ call' = [call EXCEPT !.pc = "idle", !.arg = NULL]
    /\ ghost' = [ghost EXCEPT !.call_log = Logged(@, call.pc, r.sent, "idle"),
                              !.wire = Wired("call", r.sent)]
    /\ UNCHANGED <<data, poll, env>>

\* async_set_heatlevel up to its return or its sleep.
async_set_heatlevel(s, heatlevel, ok) ==
    IF ~ValidHeatlevel(heatlevel) THEN Result(s, FALSE, <<>>)
    ELSE SetHeatlevelMode(s, heatlevel, ok)

SetHeatlevel(heatlevel, ok) ==
    /\ MayCall
    /\ IF ValidHeatlevel(heatlevel) /\ ok
       THEN CallSleeps("set_heatlevel", heatlevel, async_set_heatlevel(self, heatlevel, ok))
       ELSE CallReturns(async_set_heatlevel(self, heatlevel, ok))

SetHeatlevelSettled(ok) ==
    /\ call.pc = "set_heatlevel"
    /\ CallResumes(SetHeatlevelValue(self, call.arg, ok))

SetTemperature(temperature, ok) ==
    /\ MayCall
    /\ IF ok
       THEN CallSleeps("set_temperature", temperature, SetTemperatureMode(self, temperature, ok))
       ELSE CallReturns(SetTemperatureMode(self, temperature, ok))

SetTemperatureSettled(ok) ==
    /\ call.pc = "set_temperature"
    /\ CallResumes(SetTemperatureValue(self, call.arg, ok))

\* async_set_temperature is called while another call is in its settle
\* delay: nothing in the coordinator makes it wait.
OverlappingSetTemperature(temperature, ok) ==
    /\ call.pc # "idle" /\ call.other.pc = "idle"
    /\ env.max_calls # NULL => ghost.calls < env.max_calls
    /\ \E r \in {SetTemperatureMode(self, temperature, ok)} :
        /\ self' = r.s
        /\ call' = [call EXCEPT !.other =
                       IF ok THEN [pc |-> "set_temperature", arg |-> temperature]
                       ELSE NoCall]
        /\ ghost' = [ghost EXCEPT
                       !.calls = IF env.max_calls # NULL THEN @ + 1 ELSE @,
                       !.wire = Wired("other", r.sent)]
    /\ UNCHANGED <<data, poll, env>>

OverlappingSetTemperatureSettled(ok) ==
    /\ call.other.pc = "set_temperature"
    /\ \E r \in {SetTemperatureValue(self, call.other.arg, ok)} :
        /\ self' = r.s
        /\ call' = [call EXCEPT !.other = NoCall]
        /\ ghost' = [ghost EXCEPT !.wire = Wired("other", r.sent)]
    /\ UNCHANGED <<data, poll, env>>

SetOperationMode(mode, ok) ==
    /\ MayCall
    /\ CallReturns(async_set_operation_mode(self, mode, ok))

ToggleMode(ok) ==
    /\ MayCall
    /\ CallReturns(async_toggle_mode(self, data, ok))

StartStove(ok) ==
    /\ MayCall
    /\ CallReturns(async_start_stove(self, ok))

StopStove(ok) ==
    /\ MayCall
    /\ CallReturns(async_stop_stove(self, ok))

RefillPellets ==
    /\ self' = refill_pellets(self, data)
    /\ ghost' = IF env.history
                THEN [ghost EXCEPT !.positive_deltas = 0, !.no_reset = FALSE]
                ELSE ghost
    /\ UNCHANGED <<data, poll, call, env>>

ResetRefillCounter ==
    /\ self' = reset_refill_counter(self)
    /\ ghost' = IF env.history THEN [ghost EXCEPT !.no_reset = FALSE] ELSE ghost
    /\ UNCHANGED <<data, poll, call, env>>

\* Time passes: every stamp is one unit older.
Tick ==
    /\ self' = [self EXCEPT !.mode_change_started = Older(@),
                            !.high_smoke_temp_start_time = Older(@),
                            !.low_wood_temp_start_time = Older(@)]
    /\ ghost' = [ghost EXCEPT !.high_streak = Older(@), !.low_streak = Older(@)]
    /\ UNCHANGED <<data, poll, call, env>>

\* ------------------------------------------------------------------------
\* async_load_pellet_data and async_setup_entry: the state after set-up
\* ------------------------------------------------------------------------
\* heating_observations and cooling_observations as async_load_pellet_data
\* rebuilds them: tuple keys, and datetimes where strings were stored.
LoadObservations(stored) ==
    [k \in { EvalKey(key_str) : key_str \in DOMAIN stored } |->
        IF stored[StrKey(k)].last_updated.type = "str"
        THEN [stored[StrKey(k)] EXCEPT !.last_updated = fromisoformat(@)]
        ELSE stored[StrKey(k)]]

\* Looks only for the integer key.
LoadConsumptionIntegerKey(stored, hl) ==
    CASE IntKey(hl) \in DOMAIN stored -> stored[IntKey(hl)]
      [] OTHER -> EmptyConsumption(hl)

\* "Try both integer and string keys"
LoadConsumption(stored, hl) ==
    CASE IntKey(hl) \in DOMAIN stored -> stored[IntKey(hl)]
      [] StrKey(hl) \in DOMAIN stored -> stored[StrKey(hl)]
      [] OTHER -> EmptyConsumption(hl)

\* The learning data after loading.  A store with learning data but no
\* startup aggregate gets a default that has the key "total_consumption_rate"
\* where __init__ has "total_consumption".
LoadLearningData(blob) ==
    [heating_observations |->
         IF blob.has_learning_data
         THEN LoadObservations(blob.heating_observations) ELSE EmptyDict,
     cooling_observations |->
         IF blob.has_learning_data
         THEN LoadObservations(blob.cooling_observations) ELSE EmptyDict,
     consumption_observations |->
         [hl \in 1..3 |->
            IF blob.has_learning_data
            THEN LoadConsumption(blob.consumption_observations, hl)
            ELSE EmptyConsumption(hl)],
     startup_observations |->
         IF ~blob.has_learning_data THEN EmptyStartup
         ELSE IF blob.has_startup_observations THEN blob.startup_observations
         ELSE [EmptyStartup EXCEPT !.has_total_consumption = FALSE],
     shutdown_restart_deltas |->
         IF blob.has_learning_data
            /\ "shutdown" \in DOMAIN blob.shutdown_restart_deltas
         THEN blob.shutdown_restart_deltas ELSE EmptyDeltas]

async_load_pellet_data(s, blob) ==
    [s EXCEPT !.pellets_consumed = blob.pellets_consumed,
              !.pellets_consumed_total = blob.pellets_consumed_total,
              !.auto_resume_after_wood = blob.auto_resume_after_wood,
              !.auto_shutdown_enabled = blob.auto_shutdown_enabled,
              !.pellet_capacity = blob.pellet_capacity,
              !.notification_level = blob.notification_level,
              !.shutdown_level = blob.shutdown_level,
              !.high_smoke_temp_threshold = blob.high_smoke_temp_threshold,
              !.high_smoke_duration_threshold = blob.high_smoke_duration_threshold,
              !.low_wood_temp_threshold = blob.low_wood_temp_threshold,
              !.low_wood_duration_threshold = blob.low_wood_duration_threshold,
              !.learning_data = LoadLearningData(blob)]

\* heating_observations and cooling_observations as async_save_pellet_data
\* writes them: str(k) for the key, isoformat for the datetime.
SaveObservations(dict) ==
    [key_str \in { StrKey(k) : k \in DOMAIN dict } |->
        [dict[EvalKey(key_str)] EXCEPT !.last_updated = isoformat(@)]]

\* consumption_observations is written as it is, and JSON makes strings of
\* its integer keys.
SaveConsumption(dict) ==
    [key_str \in { StrKey(hl) : hl \in DOMAIN dict } |-> dict[EvalKey(key_str)]]

\* async_save_pellet_data: the blob handed to the Store.
async_save_pellet_data(s) ==
    [pellets_consumed |-> s.pellets_consumed,
     pellets_consumed_total |-> s.pellets_consumed_total,
     auto_resume_after_wood |-> s.auto_resume_after_wood,
     auto_shutdown_enabled |-> s.auto_shutdown_enabled,
     pellet_capacity |-> s.pellet_capacity,
     notification_level |-> s.notification_level,
     shutdown_level |-> s.shutdown_level,
     high_smoke_temp_threshold |-> s.high_smoke_temp_threshold,
     high_smoke_duration_threshold |-> s.high_smoke_duration_threshold,
     low_wood_temp_threshold |-> s.low_wood_temp_threshold,
     low_wood_duration_threshold |-> s.low_wood_duration_threshold,
     has_learning_data |-> TRUE,
     heating_observations |->
         SaveObservations(s.learning_data.heating_observations),
     cooling_observations |->
         SaveObservations(s.learning_data.cooling_observations),
     consumption_observations |->
         SaveConsumption(s.learning_data.consumption_observations),
     has_startup_observations |-> TRUE,
     startup_observations |-> s.learning_data.startup_observations,
     shutdown_restart_deltas |-> s.learning_data.shutdown_restart_deltas]

\* ------------------------------------------------------------------------
\* Runs.  A run is the stove and the callers of one installation: the stored
\* settings it starts from, the telemetry the stove answers with and the
\* calls that are made.  A specification starts in any of its runs.
\* ------------------------------------------------------------------------
Run(scenario, max_calls, history) ==
    [scenario |-> scenario, max_calls |-> max_calls, history |-> history]

\* The learning data after twenty observations at every heat level and five
\* waiting periods, the last of them written days ago, and its store.
LearnedData(days) ==
    [InitLearningData EXCEPT
       !.consumption_observations =
           [hl \in 1..3 |-> [count |-> 20,
                             total_consumption_rate |-> Whole(20),
                             avg_consumption_rate |-> Whole(1)]],
       !.cooling_observations =
           Put(EmptyDict, <<NULL, 20>>,
               [count |-> 5, total_cooling_rate |-> Whole(5),
                avg_cooling_rate |-> Whole(1),
                last_updated |-> Datetime(days)])]

\* Learning data for the temperature-mode simulation: rate kg/h at heat
\* level 1 and in proportion above, ten grams a startup, heating observed at
\* heat level 1 with and without an outdoor reading, cooling likewise.
SimulatedData(rate) ==
    [LearnedData(Now) EXCEPT
       !.consumption_observations =
           [hl \in 1..3 |-> [count |-> 20,
                             total_consumption_rate |-> Times(Whole(20 * hl), rate),
                             avg_consumption_rate |-> Times(Whole(hl), rate)]],
       !.startup_observations =
           [EmptyStartup EXCEPT !.count = 1,
                                !.total_consumption = Fraction(1, 100),
                                !.avg_consumption = Fraction(1, 100)],
       !.heating_observations =
           Put(Put(EmptyDict, <<1, 0, NULL>>,
                   [count |-> 1, total_heating_rate |-> Whole(6),
                    avg_heating_rate |-> Whole(6), last_updated |-> Datetime(Now)]),
               <<1, 0, 10>>,
               [count |-> 1, total_heating_rate |-> Whole(3),
                avg_heating_rate |-> Whole(3), last_updated |-> Datetime(Now)]),
       !.cooling_observations =
           Put(@, <<10, 20>>,
               [count |-> 2, total_cooling_rate |-> Whole(1),
                avg_cooling_rate |-> Fraction(1, 2),
                last_updated |-> Datetime(Now)])]

SimulatedBlob(rate, capacity) ==
    [async_save_pellet_data([InitSelf EXCEPT !.learning_data = SimulatedData(rate)])
       EXCEPT !.pellet_capacity = capacity]

LearnedBlob(days) ==
    async_save_pellet_data([InitSelf EXCEPT !.learning_data = LearnedData(days)])

StoredBlob(scenario) ==
    CASE scenario = "shutdown" ->
           [DefaultBlob EXCEPT !.auto_shutdown_enabled = TRUE,
                               !.pellet_capacity = 2,
                               !.notification_level = 50,
                               !.shutdown_level = 50]
      [] scenario \in {"wood", "wood_episode"} ->
           [DefaultBlob EXCEPT !.auto_resume_after_wood = TRUE]
      [] scenario = "alert" ->
           [DefaultBlob EXCEPT !.high_smoke_temp_threshold = 50,
                               !.high_smoke_duration_threshold = 2,
                               !.low_wood_temp_threshold = 30,
                               !.low_wood_duration_threshold = 2]
      [] scenario = "fuel" ->
           [DefaultBlob EXCEPT !.auto_shutdown_enabled = TRUE,
                               !.pellet_capacity = 10,
                               !.notification_level = 50,
                               !.shutdown_level = 20]
      [] scenario = "learn_saved" ->
           [DefaultBlob EXCEPT !.has_learning_data = TRUE,
                               !.has_startup_observations = TRUE,
                               !.startup_observations =
                                   [EmptyStartup EXCEPT
                                      !.count = 1,
                                      !.total_consumption = Whole(10),
                                      !.avg_consumption = Whole(10),
                                      !.avg_duration = Whole(100)]]
      [] scenario = "learn_legacy" ->
           [DefaultBlob EXCEPT !.has_learning_data = TRUE]
      [] scenario = "predict" ->
           [DefaultBlob EXCEPT !.pellet_capacity = 2]
      [] scenario = "sim_cycles" -> SimulatedBlob(Fraction(2, 10), 10)
      [] scenario = "sim_forecast" -> SimulatedBlob(Whole(3), 1)
      [] scenario = "predict_learned" ->
           [LearnedBlob(Now) EXCEPT !.pellet_capacity = 2]
      [] scenario = "predict_stale" ->
           [LearnedBlob(61) EXCEPT !.pellet_capacity = 2]
      [] scenario = "predict_full" ->
           [LearnedBlob(Now) EXCEPT !.pellet_capacity = 5]
      [] OTHER -> DefaultBlob

\* The daily-counter readings a stove that burns is polled with.
DayReadings == {1, 2, 3, 5}

\* Telemetry with operating data and status.
Answers(statuses, states, heatlevels, refs, smokes, cons, days) ==
    { Telemetry(status, TRUE, state, heatlevel, ref, 20, smoke, cons, day) :
        status \in statuses, state \in states, heatlevel \in heatlevels,
        ref \in refs, smoke \in smokes, day \in days }

\* Telemetry of a cycle whose operating fetch failed, and of one whose
\* status fetch failed.
NoOperating == Telemetry(0, FALSE, "none", NULL, NULL, NULL, 0, "failed", 0)
NoStatus == Telemetry(NULL, TRUE, "5", 1, 20, 20, 100, "failed", 0)

Polled(scenario) ==
    CASE scenario = "heatlevel" ->
           Answers({0, 1}, {"5", "14"}, {1, 2}, {20}, {100}, "failed", {0})
               \cup {NoOperating, NoStatus}
      [] scenario = "temperature" ->
           Answers({0, 1}, {"5", "14"}, {1}, {20, 21}, {100}, "failed", {0})
      [] scenario = "mode" ->
           Answers({0, 1}, {"5"}, {1, 2}, {20}, {100}, "failed", {0})
               \cup {NoOperating}
      [] scenario = "shutdown" ->
           Answers({0}, {"5", "14"}, {2}, {20}, {100}, "fetched", {0, 1})
      [] scenario = "wood" ->
           Answers({0}, {"5", "9"}, {1, 2}, {20}, {100, 200}, "failed", {0})
      [] scenario = "fuel" ->
           Answers({0}, {"5"}, {1}, {20}, {100}, "fetched", DayReadings)
               \cup Answers({0}, {"5"}, {1}, {20}, {100}, "skipped", {0})
               \cup Answers({0}, {"5"}, {1}, {20}, {100}, "failed", {0})
      [] scenario = "alert" ->
           Answers({0}, {"5", "9"}, {1}, {20}, {20, 40, 60}, "failed", {0})
               \cup {NoOperating}
      [] scenario \in {"predict", "predict_learned", "predict_stale",
                       "predict_full"} ->
           Answers({0, 1, 2}, {"5", "14"}, {1}, {20}, {100}, "fetched", {0, 1, 2})
               \cup Answers({0}, {"5"}, {1}, {20}, {100}, "failed", {0})
               \cup {NoOperating, NoStatus}
      [] scenario = "overlap" ->
           \* a stove in heat-level mode that follows no command
           Answers({0}, {"5"}, {1}, {20}, {100}, "failed", {0})
      [] scenario = "sim_cycles" ->
           \* a stove burning in temperature mode, the room at 20 degrees
           Answers({1}, {"5"}, {1}, {18, 20}, {100}, "fetched", {0})
      [] scenario = "sim_forecast" ->
           \* a stove in either mode, burning or off, that may use up its fuel
           Answers({0, 1}, {"5", "14"}, {1}, {20}, {100}, "fetched", {0, 1})
      [] scenario = "track_heating" ->
           \* a stove in temperature mode that burns at either level, waits
           \* and stops, and one that burns wood
           Answers({1}, {"5"}, {1, 2}, {20}, {100}, "fetched", {0})
               \cup Answers({1}, {"6", "14"}, {1}, {20}, {100}, "fetched", {0})
               \cup Answers({2}, {"9"}, {1}, {20}, {200}, "fetched", {0})
      [] scenario = "track_waiting" ->
           \* a stove that burns and waits, in either pellet mode and with
           \* either target
           Answers({0, 1}, {"5", "6"}, {1}, {20}, {100}, "fetched", {0})
               \cup Answers({1}, {"5", "6"}, {1}, {21}, {100}, "fetched", {0})
      [] scenario = "save_cycle" ->
           \* a stove that burns and waits in temperature mode
           Answers({1}, {"5", "6"}, {1}, {20}, {100}, "fetched", {0})
      [] scenario = "wood_episode" ->
           \* a stove that burns pellets in either mode and wood with a
           \* strong and with a dying fire
           Answers({0, 1}, {"5", "9"}, {1}, {20}, {100, 200}, "failed", {0})
               \cup {NoOperating}
      [] scenario = "fetch" ->
           \* a stove whose every fetch may fail
           Answers({0, 1}, {"5"}, {1, 2}, {20}, {100}, "fetched", {0, 1})
               \cup Answers({0, 1}, {"5"}, {1, 2}, {20}, {100}, "failed", {0})
               \cup {NoOperating, NoStatus,
                     Telemetry(NULL, FALSE, "none", NULL, NULL, NULL, 0, "failed", 0)}
      [] scenario = "track_startup" ->
           \* a stove that starts, with or without burning a kilogram,
           \* reaches stable operation or stops, and one that burns wood
           Answers({1}, {"2", "5", "14"}, {1}, {20}, {100}, "fetched", {0, 1})
               \cup Answers({2}, {"9"}, {1}, {20}, {200}, "fetched", {0, 1})
      [] scenario = "stuck" ->
           \* a stove that answers and never follows a command
           Answers({1}, {"5"}, {1}, {20}, {100}, "failed", {0})
      [] OTHER -> {}

CalledHeatlevels(scenario) ==
    CASE scenario = "heatlevel" -> {0, 2, 4}
      [] scenario \in {"shutdown", "wood", "stuck", "overlap"} -> {2}
      [] OTHER -> {}

CalledTemperatures(scenario) ==
    IF scenario \in {"temperature", "overlap"} THEN {21} ELSE {}

CalledModes(scenario) ==
    IF scenario = "mode" THEN {0 - 1, 1, 3} ELSE {}

Setup(run) ==
    /\ env = run
    /\ self = [async_load_pellet_data(InitSelf, StoredBlob(run.scenario))
                 EXCEPT !.store = StoredBlob(run.scenario)]
    /\ data = async_setup_entry(self)
    /\ poll = PollIdle
    /\ call = CallIdle
    /\ ghost = InitGhost

\* Outcomes of the commands a cycle may send: both where the cycle can send
\* one, success alone where it cannot.
Outcomes(enabled) == IF enabled THEN BOOLEAN ELSE {TRUE}

\* ------------------------------------------------------------------------
\* The command state machine
\* ------------------------------------------------------------------------
CmdPollStart ==
    \E t \in Polled(env.scenario),
       okStart \in Outcomes(self.auto_resume_after_wood),
       okStop \in Outcomes(self.auto_shutdown_enabled) :
        PollStart(t, okStart, okStop)
CmdPollFails == \E t \in Polled(env.scenario) : PollFails(t)
CmdPollRestore ==
    \E okMode \in BOOLEAN, okStop \in Outcomes(self.auto_shutdown_enabled) :
        PollRestore(okMode, okStop)
CmdPollRestoreValue ==
    \E okValue \in BOOLEAN, okStop \in Outcomes(self.auto_shutdown_enabled) :
        PollRestoreValue(okValue, okStop)
CmdPollResent ==
    \E okStop \in Outcomes(self.auto_shutdown_enabled) : PollResent(okStop)
CmdSetHeatlevel ==
    \E heatlevel \in CalledHeatlevels(env.scenario), ok \in BOOLEAN :
        SetHeatlevel(heatlevel, ok)
CmdSetHeatlevelSettled == \E ok \in BOOLEAN : SetHeatlevelSettled(ok)
CmdSetTemperature ==
    \E temperature \in CalledTemperatures(env.scenario), ok \in BOOLEAN :
        SetTemperature(temperature, ok)
CmdSetTemperatureSettled == \E ok \in BOOLEAN : SetTemperatureSettled(ok)
CmdSetOperationMode ==
    \E mode \in CalledModes(env.scenario), ok \in BOOLEAN :
        SetOperationMode(mode, ok)
CmdToggleMode ==
    env.scenario = "mode" /\ \E ok \in BOOLEAN : ToggleMode(ok)
CmdStartStove ==
    env.scenario = "heatlevel" /\ \E ok \in BOOLEAN : StartStove(ok)
CmdStopStove ==
    env.scenario \in {"heatlevel", "temperature"} /\ \E ok \in BOOLEAN : StopStove(ok)
CmdRefillPellets ==
    env.scenario = "shutdown" /\ RefillPellets

Scenarios == {"heatlevel", "temperature", "mode", "shutdown", "wood"}

Init == \E scenario \in Scenarios : Setup(Run(scenario, NULL, FALSE))

Next ==
    \/ CmdPollStart
    \/ CmdPollFails
    \/ CmdPollRestore
    \/ CmdPollRestoreValue
    \/ CmdPollResent
    \/ CmdSetHeatlevel
    \/ CmdSetHeatlevelSettled
    \/ CmdSetTemperature
    \/ CmdSetTemperatureSettled
    \/ CmdSetOperationMode
    \/ CmdToggleMode
    \/ CmdStartStove
    \/ CmdStopStove
    \/ CmdRefillPellets
    \/ Tick

Spec == Init /\ [][Next]_vars

\* ------------------------------------------------------------------------
\* Properties of the command state machine
\* ------------------------------------------------------------------------
\* Every telemetry any run is fed; the properties below are stated for all
\* of it in every reachable state.
Telemetries == UNION { Polled(scenario) : scenario \in Scenarios }

\* The cycle a poll starting now with telemetry t would run.
CycleOf(t, okStart, okStop) ==
    CycleStart(self, FetchAllData(t, data), okStart, okStop)

TargetsNull(s) ==
    /\ s.target_heatlevel = NULL
    /\ s.target_temperature = NULL
    /\ s.target_operation_mode = NULL

\* Telemetry t carries status and operating data and equals every non-null
\* target of s.
Matches(s, t) ==
    /\ t.operating /\ t.status # NULL
    /\ s.target_heatlevel # NULL => t.heatlevel = s.target_heatlevel
    /\ s.target_temperature # NULL => t.boiler_ref = s.target_temperature
    /\ s.target_operation_mode # NULL => t.status = s.target_operation_mode

StopCommand == Cmd("misc.stop", 1)

EntersShutdown(s, t) ==
    /\ t.operating /\ t.status # NULL
    /\ s.previous_state # "none" /\ s.previous_state \notin SHUTDOWN_STATES
    /\ t.state \in SHUTDOWN_STATES

\* No command that sets the operation mode, the heat level or the target
\* temperature is among the commands sent.
NoSetCommand(sent) ==
    \A i \in 1..Len(sent) :
        sent[i].path \notin {"regulation.operation_mode", "regulation.fixed_power", "boiler.temp"}

\* What the external-stop handling leaves in any case.
StopCleared(c) ==
    /\ c.pc = "idle"
    /\ ~c.s.toggle_heat_target
    /\ c.s.resend_attempt = 0
    /\ TargetsNull(c.s)
    /\ ~c.d.app_change_detected
    /\ NoSetCommand(c.sent)

\* C3 as stated: a poll on which the stove enters a shutdown state ends with
\* change_in_progress, the toggle flag, the start timestamp, the retry
\* counter and all three targets cleared, reports app_change_detected false
\* and sends no set-command.
C3_ExternalStopEndsCleared ==
    poll.pc = "idle" =>
        \A t \in Telemetries, okStart \in BOOLEAN, okStop \in BOOLEAN :
            LET c == CycleOf(t, okStart, okStop)
            IN  EntersShutdown(self, t)
                    => /\ StopCleared(c)
                       /\ ~c.s.change_in_progress
                       /\ c.s.mode_change_started = NULL

\* C3 amended: such a poll clears the toggle flag, the retry counter and all
\* three targets, reports app_change_detected false and sends no command
\* that sets mode, heat level or temperature; change_in_progress and the
\* start timestamp are cleared too unless the poll's own auto-shutdown then
\* sends the stop command successfully, which sets both again.
C3_ExternalStopClears ==
    poll.pc = "idle" =>
        \A t \in Telemetries, okStart \in BOOLEAN, okStop \in BOOLEAN :
            LET c == CycleOf(t, okStart, okStop)
            IN  EntersShutdown(self, t)
                    => /\ StopCleared(c)
                       /\ IF okStop /\ c.sent = <<StopCommand>>
                          THEN c.s.change_in_progress /\ c.s.mode_change_started = Now
                          ELSE ~c.s.change_in_progress /\ c.s.mode_change_started = NULL

\* A change with a target and a resend behind it is pending, and the run's
\* next poll sees the stove enter a shutdown state.
C3_Witness ==
    /\ poll.pc = "idle"
    /\ self.change_in_progress /\ self.resend_attempt > 0
    /\ self.target_operation_mode # NULL
    /\ \E t \in Polled(env.scenario) :
        LET c == CycleOf(t, TRUE, TRUE)
        IN  /\ EntersShutdown(self, t)
            /\ ~Matches(self, t)
            /\ c.d.auto_stop_detected
            /\ StopCleared(c) /\ ~c.s.change_in_progress

\* ------------------------------------------------------------------------
\* Rejected calls
\* ------------------------------------------------------------------------
OutOfRange == ((0 - 2)..5)

\* C7: a set_heatlevel call with a level outside {1,2,3} and a
\* set_operation_mode call with a mode outside {0,1,2} return failure, send
\* no command and leave the coordinator, with its targets,
\* change_in_progress, start timestamp and retry counter, as it was,
\* whatever the transport would have answered.
C7_InvalidValueRejected ==
    \A value \in OutOfRange, ok \in BOOLEAN :
        /\ value \notin {1, 2, 3} =>
             LET r == async_set_heatlevel(self, value, ok)
             IN  ~r.ret /\ r.sent = <<>> /\ r.s = self
        /\ value \notin {0, 1, 2} =>
             LET r == async_set_operation_mode(self, value, ok)
             IN  ~r.ret /\ r.sent = <<>> /\ r.s = self

\* A change with a resend behind it is pending when the run's caller passes
\* heat level 0.
C7_Witness ==
    /\ call.pc = "idle"
    /\ 0 \in CalledHeatlevels(env.scenario)
    /\ self.change_in_progress /\ self.resend_attempt > 0
    /\ self.target_heatlevel # NULL /\ self.mode_change_started # NULL
    /\ ~async_set_heatlevel(self, 0, TRUE).ret
    /\ async_set_heatlevel(self, 0, TRUE).s = self

\* ------------------------------------------------------------------------
\* The command state machine with time passing and the stove answering
\* ------------------------------------------------------------------------
\* The coordinator's timer starts a cycle again and again, a sleeping
\* coroutine is woken, time passes, and the stove keeps answering; callers
\* make MaxCalls calls at most.
LiveScenarios == {"stuck", "heatlevel"}

LiveInit == \E scenario \in LiveScenarios : Setup(Run(scenario, MaxCalls, FALSE))

\* A cycle in which the stove answers both the status and the operating fetch.
AnsweredPoll ==
    \E t \in Polled(env.scenario) :
        /\ t.operating /\ t.status # NULL
        /\ PollStart(t, TRUE, TRUE)

LiveNext ==
    \/ CmdPollStart
    \/ CmdPollFails
    \/ CmdPollResent
    \/ CmdSetHeatlevel
    \/ CmdSetHeatlevelSettled
    \/ CmdStartStove
    \/ CmdStopStove
    \/ Tick

LiveSpec ==
    /\ LiveInit /\ [][LiveNext]_vars
    /\ WF_vars(Tick)
    /\ WF_vars(AnsweredPoll)
    /\ WF_vars(CmdPollResent)

\* A poll that starts now with no change in progress makes no resend.
NoResendWhenIdle ==
    (poll.pc = "idle" /\ ~self.change_in_progress) =>
        \A t \in Telemetries, okStart \in BOOLEAN, okStop \in BOOLEAN :
            LET c == CycleOf(t, okStart, okStop)
            IN  c.pc # "resend_sleep" /\ NoSetCommand(c.sent)

\* C2: a change in progress does not stay in progress: also when telemetry
\* never matches, polling leads to change_in_progress false (by the total
\* change timeout, after the resends); and a poll that starts with
\* change_in_progress false resends nothing.
C2_TimeoutEndsPending ==
    /\ self.change_in_progress ~> ~self.change_in_progress
    /\ []NoResendWhenIdle

\* All resends are spent, the total-change timeout has passed, and the next
\* poll of a stove that never follows gives the change up.
C2_Witness ==
    /\ env.scenario = "stuck" /\ poll.pc = "idle"
    /\ self.change_in_progress /\ self.target_heatlevel = 2
    /\ self.resend_attempt = self.max_resend_attempts
    /\ \E t \in Polled(env.scenario) :
        LET c == CycleOf(t, TRUE, TRUE)
        IN  /\ ~Matches(self, t)
            /\ ShouldGiveUp(self, FetchAllData(t, data))
            /\ c.pc = "idle" /\ c.sent = <<>>
            /\ ~c.s.change_in_progress /\ TargetsNull(c.s)

\* ------------------------------------------------------------------------
\* Consumption accounting
\* ------------------------------------------------------------------------
\* A stove that burns, a hopper that is refilled and a stove that is cleaned;
\* the readings of the run are recorded.
FuelInit == Setup(Run("fuel", NULL, TRUE))

FuelPoll ==
    \E t \in Polled(env.scenario), okStop \in BOOLEAN : PollStart(t, TRUE, okStop)

FuelNext ==
    \/ FuelPoll
    \/ RefillPellets
    \/ ResetRefillCounter

SpecFuel == FuelInit /\ [][FuelNext]_vars

\* The cycle a poll starting now would run on reading day of the daily
\* counter.
ReadingCycle(day, okStop) ==
    CycleOf(Telemetry(0, TRUE, "5", 1, 20, 20, 100, "fetched", day), TRUE, okStop)

\* C4: a poll whose reading is above the last seen value by delta adds
\* exactly delta to pellets_consumed and to pellets_consumed_total; a lower
\* reading changes neither and becomes the last seen value; an equal one
\* changes nothing.  And pellets_consumed is the sum of the rises between
\* successive readings since the last refill.
C4_ConsumptionTracksDeltas ==
    /\ self.pellets_consumed = ghost.positive_deltas
    /\ (poll.pc = "idle" /\ self.has_last_consumption_day_value) =>
         \A day \in 0..(MaxDay + 1), okStop \in BOOLEAN :
            LET c == ReadingCycle(day, okStop)
                last == self.last_consumption_day_value
                rise == IF day > last THEN day - last ELSE 0
            IN  /\ c.s.pellets_consumed = self.pellets_consumed + rise
                /\ c.s.pellets_consumed_total = self.pellets_consumed_total + rise
                /\ c.s.last_consumption_day_value = day
                /\ c.s.has_last_consumption_day_value

\* The counter rose and rolled over at midnight, and the next reading is a
\* rise.
C4_Witness ==
    /\ poll.pc = "idle"
    /\ Len(ghost.readings) = 3
    /\ ghost.readings[1] < ghost.readings[2]
    /\ ghost.readings[3] < ghost.readings[2]
    /\ self.pellets_consumed = ghost.readings[2] - ghost.readings[1]
    /\ self.last_consumption_day_value = ghost.readings[3]
    /\ \E day \in 0..MaxDay :
        /\ day > self.last_consumption_day_value
        /\ ReadingCycle(day, TRUE).s.pellets_consumed
              = self.pellets_consumed + (day - self.last_consumption_day_value)

\* C5 as stated: on a fresh coordinator the readings 2, 5, 1, 3 leave
\* pellets_consumed = 7, the first reading being counted against a baseline
\* of 0.
C5_FirstReadingCounted ==
    (ghost.readings = <<2, 5, 1, 3>> /\ ghost.no_reset) => self.pellets_consumed = 7

\* C5 amended: the first reading of a fresh coordinator becomes the baseline
\* and is not counted: after it pellets_consumed is still 0, and the
\* readings 2, 5, 1, 3 leave pellets_consumed = 5.
C5_FirstReadingIsBaseline ==
    ghost.no_reset =>
        /\ Len(ghost.readings) = 1 =>
             /\ self.pellets_consumed = 0
             /\ self.has_last_consumption_day_value
             /\ self.last_consumption_day_value = ghost.readings[1]
        /\ ghost.readings = <<2, 5, 1, 3>> => self.pellets_consumed = 5

C5_Witness ==
    /\ ghost.readings = <<2, 5, 1, 3>> /\ ghost.no_reset
    /\ self.pellets_consumed = 5 /\ self.last_consumption_day_value = 3

\* C6: refill_pellets sets pellets_consumed to 0 and clears both notification
\* latches, and leaves pellets_consumed_total, the capacity and the last seen
\* daily-counter value as they were; reset_refill_counter sets
\* pellets_consumed_total to 0 and leaves pellets_consumed and both latches
\* as they were.  Neither touches any other field but the refill baseline.
C6_RefillAndResetFrame ==
    LET r == refill_pellets(self, data)
        c == reset_refill_counter(self)
    IN  /\ r.pellets_consumed = 0
        /\ ~r.low_pellet_notification_sent /\ ~r.shutdown_notification_sent
        /\ r = [self EXCEPT !.pellets_consumed = 0,
                            !.low_pellet_notification_sent = FALSE,
                            !.shutdown_notification_sent = FALSE,
                            !.consumption_at_refill = r.consumption_at_refill]
        /\ c = [self EXCEPT !.pellets_consumed_total = 0]

\* Pellets have been burnt since the last refill and since the last cleaning,
\* which was later, and both latches are set.
C6_Witness ==
    /\ self.pellets_consumed > 0
    /\ self.pellets_consumed_total > 0
    /\ self.pellets_consumed_total < self.pellets_consumed
    /\ self.low_pellet_notification_sent /\ self.shutdown_notification_sent
    /\ self.has_last_consumption_day_value /\ self.last_consumption_day_value > 0
    /\ refill_pellets(self, data).pellets_consumed = 0
    /\ refill_pellets(self, data).pellets_consumed_total = self.pellets_consumed_total
    /\ reset_refill_counter(self).pellets_consumed = self.pellets_consumed

\* ------------------------------------------------------------------------
\* The alert evaluator
\* ------------------------------------------------------------------------
\* A stove whose smoke temperature moves across both thresholds, in and out
\* of wood mode, while time passes; the run records for how long the polls
\* have seen each condition without a break.
AlertInit == Setup(Run("alert", NULL, TRUE))

AlertPoll == \E t \in Polled(env.scenario) : PollStart(t, TRUE, TRUE)

AlertNext == AlertPoll \/ Tick

SpecAlert == AlertInit /\ [][AlertNext]_vars

\* The conditions, read off the telemetry.
SmokeHigh(t) == t.smoke_temp >= self.high_smoke_temp_threshold
WoodLow(t) == t.state = "9" /\ t.smoke_temp <= self.low_wood_temp_threshold

\* The condition has not yet been seen for the duration: streak is the time
\* since the first poll of the unbroken run of polls that saw it.
Short(streak, duration) == streak = NULL \/ streak < duration

\* C9: for both alerts, a poll that sees the condition before it has been
\* seen for the configured duration does not fire the alert, leaves active
\* false and leaves the notified latch as it was; and a poll that sees the
\* condition false clears the timer, leaves active false, fires nothing and
\* does not set the latch.  So a crossing that reverts before the duration
\* never fires, never becomes active and never sets the latch.
C9_RevertedCrossingNeverFires ==
    /\ self.high_smoke_temp_start_time = ghost.high_streak
    /\ self.low_wood_temp_start_time = ghost.low_streak
    /\ Short(ghost.high_streak, self.high_smoke_duration_threshold)
          => ~self.high_smoke_alert_active
    /\ Short(ghost.low_streak, self.low_wood_duration_threshold)
          => ~self.low_wood_alert_active
    /\ poll.pc = "idle" =>
         \A t \in Polled("alert") \cup Telemetries :
            LET c == CycleOf(t, TRUE, TRUE)
            IN  t.operating =>
                /\ (SmokeHigh(t) /\ Short(ghost.high_streak, self.high_smoke_duration_threshold))
                     => /\ ~c.d.high_smoke_temp_triggered
                        /\ ~c.s.high_smoke_alert_active
                        /\ c.s.high_smoke_alert_sent = self.high_smoke_alert_sent
                /\ ~SmokeHigh(t)
                     => /\ c.s.high_smoke_temp_start_time = NULL
                        /\ ~c.d.high_smoke_temp_triggered
                        /\ ~c.s.high_smoke_alert_active
                        /\ c.s.high_smoke_alert_sent => self.high_smoke_alert_sent
                /\ (WoodLow(t) /\ Short(ghost.low_streak, self.low_wood_duration_threshold))
                     => /\ ~c.d.low_wood_temp_triggered
                        /\ ~c.s.low_wood_alert_active
                        /\ c.s.low_wood_alert_sent = self.low_wood_alert_sent
                /\ ~WoodLow(t)
                     => /\ c.s.low_wood_temp_start_time = NULL
                        /\ ~c.d.low_wood_temp_triggered
                        /\ ~c.s.low_wood_alert_active
                        /\ c.s.low_wood_alert_sent => self.low_wood_alert_sent

\* The smoke temperature has been high for less than the duration, nothing
\* has been notified, and the run's next poll sees it back below the
\* threshold, within the hysteresis band.
C9_Witness ==
    /\ poll.pc = "idle" /\ env.scenario = "alert"
    /\ self.high_smoke_temp_start_time = 1
    /\ self.high_smoke_temp_start_time < self.high_smoke_duration_threshold
    /\ ~self.high_smoke_alert_sent /\ data.smoke_temp >= self.high_smoke_temp_threshold
    /\ \E t \in Polled(env.scenario) :
        LET c == CycleOf(t, TRUE, TRUE)
        IN  /\ t.operating /\ ~SmokeHigh(t)
            /\ t.smoke_temp >= self.high_smoke_temp_threshold - 20
            /\ c.s.high_smoke_temp_start_time = NULL
            /\ ~c.s.high_smoke_alert_active /\ ~c.s.high_smoke_alert_sent
            /\ ~c.d.high_smoke_temp_triggered

\* ------------------------------------------------------------------------
\* The learning machine: installations that start with no stored learning
\* data, with a stored startup aggregate, or with stored learning data of a
\* version that had no startup aggregate, and record observations.
\* ------------------------------------------------------------------------
LearnScenarios == {"learn", "learn_saved", "learn_legacy"}

LearnHeatlevels == {1, 2}
\* Seconds in which the room gains or loses one degree, or the stove burns
\* one kilogram: rates of 10, 20 and 30 an hour.
LearnDurations == {360, 180, 120}
\* A startup's consumption, and a delta between room and target.
Observations == {10, 20, 30}
\* A startup's duration in seconds.
StartupDurations == {100, 200, 300}

\* The observations recorded so far.
ObservationCount(ld) ==
    SumCounts(ld.heating_observations, DOMAIN ld.heating_observations)
    + SumCounts(ld.cooling_observations, DOMAIN ld.cooling_observations)
    + ld.startup_observations.count
    + ld.shutdown_restart_deltas.shutdown.count
    + ld.shutdown_restart_deltas.restart.count

MayLearn == ObservationCount(self.learning_data) < MaxObs

Learns(ld) ==
    /\ MayLearn
    /\ self' = [self EXCEPT !.learning_data = ld]
    /\ UNCHANGED <<data, poll, call, env, ghost>>

\* A room at 20 degrees heated to 21 with a target of 22.
HeatingOf(ld, heatlevel, duration_seconds) ==
    _record_heating_observation(ld, heatlevel, duration_seconds, 20, 21, 22, 1)

\* A room at 21 degrees cooled to 20.
CoolingOf(ld, duration_seconds) ==
    _record_cooling_observation(ld, duration_seconds, 21, 20)

LearnHeating ==
    \E heatlevel \in LearnHeatlevels, duration_seconds \in LearnDurations :
        Learns(HeatingOf(self.learning_data, heatlevel, duration_seconds))

LearnCooling ==
    \E duration_seconds \in LearnDurations :
        Learns(CoolingOf(self.learning_data, duration_seconds))

LearnStartup ==
    \E duration_seconds \in StartupDurations, consumption_kg \in Observations :
        Learns(_record_startup_observation(self.learning_data,
                                           duration_seconds, consumption_kg))

LearnShutdownDelta ==
    \E delta \in Observations :
        Learns(RecordShutdownDelta(self.learning_data, 22 + delta, 22))

LearnRestartDelta ==
    \E delta \in Observations :
        Learns(RecordRestartDelta(self.learning_data, 22, 22 - delta))

\* async_save_pellet_data hands the blob to the Store.
SaveLearning ==
    /\ self' = [self EXCEPT !.store = async_save_pellet_data(self)]
    /\ UNCHANGED <<data, poll, call, env, ghost>>

\* Home Assistant restarts: a new coordinator loads what the Store holds.
ReloadLearning ==
    /\ self' = [async_load_pellet_data(InitSelf, self.store)
                  EXCEPT !.store = self.store]
    /\ ghost' = [ghost EXCEPT !.reloaded = TRUE]
    /\ UNCHANGED <<data, poll, call, env>>

LearnInit == \E scenario \in LearnScenarios : Setup(Run(scenario, NULL, FALSE))

LearnNext ==
    \/ LearnHeating
    \/ LearnCooling
    \/ LearnStartup
    \/ LearnShutdownDelta
    \/ LearnRestartDelta
    \/ SaveLearning
    \/ ReloadLearning

SpecLearn == LearnInit /\ [][LearnNext]_vars

\* Count and average of a bucket, whatever its kind; a bucket that is not in
\* its dict yet is created empty by the recorder.
View(count, avg) == [count |-> count, avg |-> avg]

HeatingView(ld, heatlevel) ==
    LET key == <<heatlevel, 3, NULL>>
    IN IF key \in DOMAIN ld.heating_observations
       THEN View(ld.heating_observations[key].count,
                 ld.heating_observations[key].avg_heating_rate)
       ELSE View(0, Whole(0))

CoolingView(ld) ==
    LET key == <<NULL, 20>>
    IN IF key \in DOMAIN ld.cooling_observations
       THEN View(ld.cooling_observations[key].count,
                 ld.cooling_observations[key].avg_cooling_rate)
       ELSE View(0, Whole(0))

ConsumptionView(ld, heatlevel) ==
    View(ld.consumption_observations[heatlevel].count,
         ld.consumption_observations[heatlevel].avg_consumption_rate)

StartupConsumptionView(ld) ==
    View(ld.startup_observations.count, ld.startup_observations.avg_consumption)

StartupDurationView(ld) ==
    View(ld.startup_observations.count, ld.startup_observations.avg_duration)

ShutdownView(ld) ==
    View(ld.shutdown_restart_deltas.shutdown.count,
         ld.shutdown_restart_deltas.shutdown.avg_delta)

RestartView(ld) ==
    View(ld.shutdown_restart_deltas.restart.count,
         ld.shutdown_restart_deltas.restart.avg_delta)

\* The count is one more and the average is (avg * n + x) / (n + 1).
IncrementalMean(before, after, x) ==
    /\ after.count = before.count + 1
    /\ after.avg = Over(Plus(Times(before.avg, Whole(before.count)), x),
                        Whole(before.count + 1))

\* An empty bucket has average 20 * unit and count 3 after the three
\* recordings.
Empty(view) == view.count = 0
Holds20(view, unit) == view.count = 3 /\ view.avg = Whole(20 * unit)

\* C8: every recorded observation adds exactly 1 to the count of its bucket
\* and moves the stored average to (avg * n + x) / (n + 1), and recording
\* 10, 20 and 30 into a bucket that starts empty (heating, cooling,
\* consumption, startup, shutdown and restart delta) leaves the average 20
\* and the count 3 (for the startup duration: 100, 200, 300 and 200).
C8_RunningAverages ==
    LET ld == self.learning_data
        PerHour(duration_seconds) == Fraction(3600, duration_seconds)
    IN /\ \A heatlevel \in LearnHeatlevels, duration_seconds \in LearnDurations :
            LET after == HeatingOf(ld, heatlevel, duration_seconds)
            IN /\ IncrementalMean(HeatingView(ld, heatlevel),
                                  HeatingView(after, heatlevel),
                                  PerHour(duration_seconds))
               /\ IncrementalMean(ConsumptionView(ld, heatlevel),
                                  ConsumptionView(after, heatlevel),
                                  PerHour(duration_seconds))
       /\ \A duration_seconds \in LearnDurations :
            IncrementalMean(CoolingView(ld),
                            CoolingView(CoolingOf(ld, duration_seconds)),
                            PerHour(duration_seconds))
       /\ \A duration_seconds \in StartupDurations, consumption_kg \in Observations :
            LET after == _record_startup_observation(ld, duration_seconds,
                                                     consumption_kg)
            IN /\ IncrementalMean(StartupConsumptionView(ld),
                                  StartupConsumptionView(after),
                                  Whole(consumption_kg))
               /\ IncrementalMean(StartupDurationView(ld),
                                  StartupDurationView(after),
                                  Whole(duration_seconds))
       /\ \A delta \in Observations :
            /\ IncrementalMean(ShutdownView(ld),
                               ShutdownView(RecordShutdownDelta(ld, 22 + delta, 22)),
                               Whole(delta))
            /\ IncrementalMean(RestartView(ld),
                               RestartView(RecordRestartDelta(ld, 22, 22 - delta)),
                               Whole(delta))
       /\ \A heatlevel \in LearnHeatlevels :
            LET after == HeatingOf(HeatingOf(HeatingOf(ld, heatlevel, 360),
                                             heatlevel, 180), heatlevel, 120)
            IN /\ Empty(HeatingView(ld, heatlevel))
                    => Holds20(HeatingView(after, heatlevel), 1)
               /\ Empty(ConsumptionView(ld, heatlevel))
                    => Holds20(ConsumptionView(after, heatlevel), 1)
       /\ Empty(CoolingView(ld))
            => Holds20(CoolingView(CoolingOf(CoolingOf(CoolingOf(ld, 360),
                                                       180), 120)), 1)
       /\ Empty(StartupConsumptionView(ld))
            => LET after == _record_startup_observation(
                              _record_startup_observation(
                                _record_startup_observation(ld, 100, 10),
                                200, 20), 300, 30)
               IN /\ Holds20(StartupConsumptionView(after), 1)
                  /\ Holds20(StartupDurationView(after), 10)
       /\ Empty(ShutdownView(ld))
            => Holds20(ShutdownView(
                         RecordShutdownDelta(
                           RecordShutdownDelta(
                             RecordShutdownDelta(ld, 32, 22), 42, 22),
                           52, 22)), 1)
       /\ Empty(RestartView(ld))
            => Holds20(RestartView(
                         RecordRestartDelta(
                           RecordRestartDelta(
                             RecordRestartDelta(ld, 22, 12), 22, 2),
                           22, 0 - 8)), 1)

\* ------------------------------------------------------------------------
\* The prediction machine: installations with a hopper of two or five
\* kilograms, with and without learned data, that are polled and asked for a
\* prediction.
\* ------------------------------------------------------------------------
PredictScenarios ==
    {"predict", "predict_learned", "predict_stale", "predict_full"}

PredictInit == \E scenario \in PredictScenarios : Setup(Run(scenario, NULL, FALSE))

PredictPoll == \E t \in Polled(env.scenario) : PollStart(t, TRUE, TRUE)

PredictPollFails == \E t \in Polled(env.scenario) : PollFails(t)

\* A sensor asks for the prediction.
PredictDepletion ==
    /\ ghost' = [ghost EXCEPT !.prediction = predict_pellet_depletion(self, data)]
    /\ UNCHANGED <<self, data, poll, call, env>>

PredictNext ==
    \/ PredictPoll
    \/ PredictPollFails
    \/ RefillPellets
    \/ PredictDepletion

SpecPredict == PredictInit /\ [][PredictNext]_vars

\* The stove reports operating data and status, in one of the given modes,
\* and no fuel remains.
OutOfFuel(modes) ==
    /\ data.hasOperating /\ data.hasStatus
    /\ data.operation_mode \in modes
    /\ pellets_remaining(data) <= 0

ReportsEmpty(prediction) ==
    prediction.status = "empty" /\ prediction.time_remaining_seconds = 0

\* C10 as stated: whenever no fuel remains, the prediction is "empty" with
\* zero seconds remaining, in operation modes 0, 1 and 2 and whether or not
\* the learned data is sufficient.
C10_EmptyInEveryMode ==
    OutOfFuel({0, 1, 2}) => ReportsEmpty(predict_pellet_depletion(self, data))

\* C10 as amended: whenever no fuel remains in operation mode 0 or 1, the
\* prediction is "empty" with zero seconds remaining, whether or not the
\* learned data is sufficient; in operation mode 2 the prediction is
\* "wood_mode" whatever fuel remains.
C10_EmptyUnlessWoodMode ==
    /\ OutOfFuel({0, 1}) => ReportsEmpty(predict_pellet_depletion(self, data))
    /\ data.hasOperating /\ data.hasStatus /\ data.operation_mode = 2
         => predict_pellet_depletion(self, data).status = "wood_mode"

\* No fuel remains in temperature mode, the learned data is insufficient,
\* and the prediction asked for in this state was "empty".
C10_Witness ==
    /\ OutOfFuel({1})
    /\ ~sufficient_data(self.learning_data)
    /\ ghost.prediction = predict_pellet_depletion(self, data)
    /\ ReportsEmpty(ghost.prediction)

\* The stove burns steadily in heat-level mode.
StableHeatlevelMode ==
    /\ data.hasOperating /\ data.hasStatus
    /\ data.operation_mode = 0
    /\ data.state \in {"5", "32"}

\* time is fuel / rate hours in whole seconds, with nothing deducted.
FuelOverRate(time, fuel, rate) ==
    /\ time # NULL
    /\ time * rate.num <= fuel * 3600 * rate.den
    /\ fuel * 3600 * rate.den < (time + 1) * rate.num

\* The rate of the table: learned, or the default while nothing is learned.
TableRate(heatlevel) ==
    LET obs == self.learning_data.consumption_observations[heatlevel]
    IN IF obs.count >= 1 THEN obs.avg_consumption_rate
       ELSE DefaultConsumptionRate(heatlevel)

PredictsFuelOverRate ==
    LET prediction == predict_pellet_depletion(self, data)
    IN /\ FuelOverRate(prediction.time_remaining_seconds,
                       pellets_remaining(data), TableRate(data.heatlevel))
       /\ pellets_remaining(data) = 5 /\ TableRate(data.heatlevel) = Whole(1)
            => prediction.time_remaining_seconds = 18000

\* C11 as stated: in heat-level mode with the stove in a stable-burn state
\* the predicted time_remaining_seconds is fuel / consumption_rate(heatlevel)
\* in seconds with no startup deduction, the rate from the learned or default
\* table; 5 kg at 1.0 kg/h give 18000.
C11_StableBurnPredictsFuelOverRate ==
    StableHeatlevelMode => PredictsFuelOverRate

\* C11 as amended: the same, provided the learned data is sufficient; with
\* insufficient learned data and fuel left the prediction is
\* "insufficient_data" and has no time_remaining_seconds.
C11_LearnedStableBurnPredictsFuelOverRate ==
    StableHeatlevelMode =>
        IF sufficient_data(self.learning_data) \/ pellets_remaining(data) <= 0
        THEN PredictsFuelOverRate
        ELSE predict_pellet_depletion(self, data)
               = Prediction("insufficient_data", NULL)

\* Five kilograms are left at a learned 1.0 kg/h in a stable burn, and the
\* prediction asked for in this state was 18000 seconds.
C11_Witness ==
    /\ StableHeatlevelMode
    /\ pellets_remaining(data) = 5
    /\ TableRate(data.heatlevel) = Whole(1)
    /\ ghost.prediction = predict_pellet_depletion(self, data)
    /\ ghost.prediction = Prediction("ok", 18000)

\* ------------------------------------------------------------------------
\* C12

\* Two dicts of buckets have the same keys and, in every bucket, the same
\* count and the same average, and the second holds datetimes.
SameBuckets(before, after, avg) ==
    /\ DOMAIN after = DOMAIN before
    /\ \A k \in DOMAIN before :
          /\ after[k].count = before[k].count
          /\ after[k][avg] = before[k][avg]
          /\ after[k].last_updated.type = "datetime"

SameAggregate(before, after, avg) ==
    after.count = before.count /\ after[avg] = before[avg]

\* What a new coordinator holds after this one has saved.
SavedAndLoaded(s) == LoadLearningData(async_save_pellet_data(s))

RoundTrip(before, after) ==
    /\ SameBuckets(before.heating_observations,
                   after.heating_observations, "avg_heating_rate")
    /\ SameBuckets(before.cooling_observations,
                   after.cooling_observations, "avg_cooling_rate")
    /\ \A hl \in 1..3 :
          SameAggregate(before.consumption_observations[hl],
                        after.consumption_observations[hl],
                        "avg_consumption_rate")
    /\ SameAggregate(before.startup_observations,
                     after.startup_observations, "avg_consumption")
    /\ SameAggregate(before.startup_observations,
                     after.startup_observations, "avg_duration")
    /\ SameAggregate(before.shutdown_restart_deltas.shutdown,
                     after.shutdown_restart_deltas.shutdown, "avg_delta")
    /\ SameAggregate(before.shutdown_restart_deltas.restart,
                     after.shutdown_restart_deltas.restart, "avg_delta")

\* C12: whatever has been learned, saving the learning data and loading it
\* again gives every heating and cooling bucket under its tuple key, every
\* consumption heat level, the startup aggregate and both delta aggregates
\* with the count and the average they had, and every last_updated a
\* datetime again; and the Store itself holds string keys and strings.
C12_SaveLoadRoundTrip ==
    /\ RoundTrip(self.learning_data, SavedAndLoaded(self))
    /\ \A key_str \in DOMAIN async_save_pellet_data(self).heating_observations :
          /\ key_str.type = "str"
          /\ async_save_pellet_data(self).heating_observations[key_str]
                 .last_updated.type = "str"

\* A coordinator that has reloaded what was saved after a heating period
\* (outdoor bucket null, consumption at its heat level), a waiting period
\* and a startup were learned, and holds it all.
C12_Witness ==
    /\ ghost.reloaded
    /\ self.learning_data = LoadLearningData(self.store)
    /\ \E k \in DOMAIN self.learning_data.heating_observations :
          /\ k[3] = NULL
          /\ self.learning_data.heating_observations[k].count > 0
          /\ self.learning_data.consumption_observations[k[1]].count > 0
    /\ \E k \in DOMAIN self.learning_data.cooling_observations :
          self.learning_data.cooling_observations[k].count > 0
    /\ self.learning_data.startup_observations.count > 0

\* ------------------------------------------------------------------------
\* C13

\* C13: in every state the coordinator passes through, after construction,
\* after every control method whether its send succeeded or failed, and
\* after every poll, the start timestamp of the pending change is non-null
\* exactly when change_in_progress is true.
C13_TimestampIffInProgress ==
    (self.mode_change_started # NULL) <=> self.change_in_progress

\* ------------------------------------------------------------------------
\* C14

IsMode(cmd) == cmd.path = "regulation.operation_mode"
IsValue(cmd) == cmd.path \in {"regulation.fixed_power", "boiler.temp"}

\* Every value command of the log comes after a mode command and the sleep
\* that follows it, with nothing but value commands in between.
ModeSleepValue(log) ==
    \A i \in 1..Len(log) :
        IsValue(log[i]) =>
            \E j \in 1..(i - 2) :
                /\ IsMode(log[j])
                /\ log[j + 1] = Sleep
                /\ \A k \in (j + 2)..i : IsValue(log[k])

\* Every value command of the log comes right after a sleep or after
\* another value command: never right after a mode command, and never as
\* the first thing of a sequence.
ValueAfterSleep(log) ==
    \A i \in 1..Len(log) :
        IsValue(log[i]) => i > 1 /\ (log[i - 1] = Sleep \/ IsValue(log[i - 1]))

\* C14: in what a control call has sent, every heatlevel or temperature
\* command follows the operation-mode command of its call and the settle
\* delay after it, and a call suspended in its settle delay has sent the mode
\* command and nothing else; in what a poll cycle has sent, resends
\* included, a value command comes only after a sleep, so the mode command
\* of a resend, sent before the sleep, comes before its values.
C14_ModeBeforeValue ==
    /\ ModeSleepValue(ghost.call_log)
    /\ ValueAfterSleep(ghost.poll_log)
    /\ poll.pc = "resend_sleep" => ModeSleepValue(ghost.poll_log)
    /\ call.pc = "set_heatlevel" =>
          ghost.call_log = <<Cmd("regulation.operation_mode", 0), Sleep>>
    /\ call.pc = "set_temperature" =>
          ghost.call_log = <<Cmd("regulation.operation_mode", 1), Sleep>>

\* async_set_heatlevel has sent mode, slept and sent the power, and a poll
\* has resent mode, slept and resent a value.
C14_Witness ==
    /\ Len(ghost.call_log) = 3 /\ IsValue(ghost.call_log[3])
    /\ ghost.call_log[3].path = "regulation.fixed_power"
    /\ \E i \in 3..Len(ghost.poll_log) :
          /\ IsValue(ghost.poll_log[i]) /\ ghost.poll_log[i - 1] = Sleep
          /\ IsMode(ghost.poll_log[i - 2])
    /\ poll.pc = "idle"

\* ------------------------------------------------------------------------
\* C15

\* Nothing is pending in s.
PendingCleared(s) ==
    /\ ~s.change_in_progress
    /\ ~s.toggle_heat_target
    /\ s.mode_change_started = NULL
    /\ s.resend_attempt = 0
    /\ s.target_heatlevel = NULL
    /\ s.target_temperature = NULL
    /\ s.target_operation_mode = NULL

\* The call r sent no value command, reported failure and left nothing
\* pending.
AbortedAndCleared(r) ==
    /\ \A i \in 1..Len(r.sent) : ~IsValue(r.sent[i])
    /\ r.ret = FALSE
    /\ PendingCleared(r.s)

\* C15: whenever a control method is called and its operation-mode command
\* fails, no value command is sent, the call returns False, and nothing is
\* left pending: change_in_progress and the toggle flag are false, the start
\* timestamp is null, the retry counter is 0 and the three targets are null.
C15_FailedModeClearsPending ==
    call.pc = "idle" =>
        /\ \A heatlevel \in HeatLevels :
              AbortedAndCleared(async_set_heatlevel(self, heatlevel, FALSE))
        /\ \A temperature \in CalledTemperatures(env.scenario) :
              AbortedAndCleared(SetTemperatureMode(self, temperature, FALSE))
        /\ \A mode \in OperationModes :
              AbortedAndCleared(async_set_operation_mode(self, mode, FALSE))
        /\ data.hasStatus =>
              AbortedAndCleared(async_toggle_mode(self, data, FALSE))

\* ------------------------------------------------------------------------
\* C16

\* This step is a poll that begins a resend.
ResendBegins == poll.pc # "resend_sleep" /\ poll'.pc = "resend_sleep"

\* This step is a poll whose resend returns from its sleep.
ResendEnds == poll.pc = "resend_sleep" /\ poll'.pc = "idle"

RetryStep ==
    /\ self'.resend_attempt > self.resend_attempt =>
          /\ ResendBegins
          /\ self'.resend_attempt = self.resend_attempt + 1
    /\ ResendBegins =>
          /\ self'.resend_attempt = self.resend_attempt + 1
          /\ self.change_in_progress /\ self'.change_in_progress
          /\ ~change_complete(self', poll'.d)
          /\ self.mode_change_started # NULL
          /\ Elapsed(self.mode_change_started) > TIMEOUT_COMMAND_RESPONSE
    /\ ResendEnds =>
          /\ self'.mode_change_started = Now
          /\ self'.resend_attempt = self.resend_attempt

\* C16: the retry counter is never above 3; it grows only in a poll that
\* begins a resend, and then by exactly 1; a resend begins only when a
\* change is pending, the telemetry of the poll leaves a target unconfirmed
\* and the start stamp is older than the command-response timeout; and when
\* the resend is through, the start time is stamped anew.
C16_BoundedRetries ==
    [](self.resend_attempt <= 3) /\ [][RetryStep]_vars

\* The third resend of one pending change is through: the counter is 3 and
\* the change was stamped just now.
C16_Witness ==
    /\ self.resend_attempt = 3
    /\ self.change_in_progress
    /\ self.mode_change_started = Now
    /\ poll.pc = "idle"
    /\ Len(ghost.poll_log) > 0 /\ IsValue(ghost.poll_log[Len(ghost.poll_log)])

\* ------------------------------------------------------------------------
\* C17

\* Telemetry d does not confirm what cmd sets.
Unconfirmed(cmd, d) ==
    CASE cmd.path = "regulation.operation_mode" -> cmd.value # d.operation_mode
      [] cmd.path = "regulation.fixed_power" ->
            \A heatlevel \in HeatLevels :
                cmd.value = POWER_HEAT_LEVEL_MAP(heatlevel) => heatlevel # d.heatlevel
      [] cmd.path = "boiler.temp" -> cmd.value # d.boiler_ref
      [] OTHER -> TRUE

\* C17: while a resend is in its sleep, the operation-mode command it sent
\* (the one logged right before the sleep) and the value commands it is about
\* to send are all for targets that the telemetry of this poll has not
\* confirmed.
C17_ResendsOnlyUnconfirmed ==
    poll.pc = "resend_sleep" =>
        /\ LET n == Len(ghost.poll_log)
           IN  n > 1 /\ IsMode(ghost.poll_log[n - 1]) =>
                   Unconfirmed(ghost.poll_log[n - 1], poll.d)
        /\ \A i \in 1..Len(ResendValues(self)) :
              Unconfirmed(ResendValues(self)[i], poll.d)

\* ------------------------------------------------------------------------
\* C18

\* A change is pending in s, telemetry t carries status and operating data
\* and leaves a target unconfirmed, and the start stamp is older than the
\* total change timeout.
TimedOut(s, t) ==
    /\ s.change_in_progress
    /\ t.operating /\ t.status # NULL
    /\ ~Matches(s, t)
    /\ s.mode_change_started # NULL
    /\ Elapsed(s.mode_change_started) > TIMEOUT_CHANGE_IN_PROGRESS

\* The cycle c abandoned the change: nothing pending, no sleep, no command.
Abandoned(c) ==
    /\ c.pc = "idle"
    /\ ~c.s.change_in_progress
    /\ TargetsNull(c.s)
    /\ c.s.resend_attempt = 0
    /\ c.sent = <<>>

AbandonedButForShutdown(c, okStop) ==
    /\ c.pc = "idle"
    /\ TargetsNull(c.s)
    /\ c.s.resend_attempt = 0
    /\ c.sent \in {<<>>, <<StopCommand>>}
    /\ c.s.change_in_progress <=> (okStop /\ c.sent = <<StopCommand>>)

Answered(t) == t.operating /\ t.status # NULL

\* Telemetry t differs from what the previous poll saw: in heatlevel while
\* in heat-level mode, in target temperature while in temperature mode, or
\* in operation mode.
Differs(s, t) ==
    \/ t.status = 0 /\ t.heatlevel # s.previous_heatlevel
    \/ t.status = 1 /\ t.boiler_ref # s.previous_temperature
    \/ t.status # s.previous_operation_mode

\* The targets of s track what differs in t.
Tracks(before, s, t) ==
    /\ (t.status = 0 /\ t.heatlevel # before.previous_heatlevel)
           => s.target_heatlevel = t.heatlevel
    /\ (t.status = 1 /\ t.boiler_ref # before.previous_temperature)
           => s.target_temperature = t.boiler_ref
    /\ t.status # before.previous_operation_mode
           => s.target_operation_mode = t.status

\* The poll ran through, flagged the change, tracked it and sent no
\* set-command.
FlaggedAndTracked(before, c, t) ==
    /\ c.pc = "idle"
    /\ c.d.app_change_detected
    /\ Tracks(before, c.s, t)
    /\ NoSetCommand(c.sent)

\* C19 as stated: with no change pending, a poll after the first whose
\* telemetry differs from the previous poll's publishes app_change_detected
\* true, sets the tracked target to the new value and sends no set-command;
\* a poll whose telemetry does not differ, and the first poll, publish
\* app_change_detected false.
C19_ExternalChangeFlagged ==
    poll.pc = "idle" =>
        \A t \in Telemetries, okStart \in BOOLEAN, okStop \in BOOLEAN :
            LET c == CycleOf(t, okStart, okStop)
            IN  Answered(t) =>
                  /\ (/\ ~self.change_in_progress
                      /\ self.previous_heatlevel # NULL
                      /\ Differs(self, t))
                         => FlaggedAndTracked(self, c, t)
                  /\ (/\ ~self.change_in_progress
                      /\ self.previous_heatlevel # NULL
                      /\ ~Differs(self, t))
                         => ~c.d.app_change_detected
                  /\ self.previous_heatlevel = NULL
                         => ~c.d.app_change_detected

\* The wood-mode resume of this poll issues a change of its own before the
\* detection runs.
ResumesFromWood(s, t, okStart) ==
    ShouldAutoResume(s, FetchAllData(t, data)) /\ okStart

\* C19 amended: the same, except on a poll on which the stove enters a
\* shutdown state, which publishes app_change_detected false whatever
\* differs, and on a poll that resumes from wood mode.
C19_ExternalChangeFlaggedUnlessStopped ==
    poll.pc = "idle" =>
        \A t \in Telemetries, okStart \in BOOLEAN, okStop \in BOOLEAN :
            LET c == CycleOf(t, okStart, okStop)
            IN  Answered(t) =>
                  /\ (/\ ~self.change_in_progress
                      /\ self.previous_heatlevel # NULL
                      /\ Differs(self, t)
                      /\ ~EntersShutdown(self, t)
                      /\ ~ResumesFromWood(self, t, okStart))
                         => FlaggedAndTracked(self, c, t)
                  /\ (/\ ~self.change_in_progress
                      /\ self.previous_heatlevel # NULL
                      /\ ~Differs(self, t))
                         => ~c.d.app_change_detected
                  /\ self.previous_heatlevel = NULL
                         => ~c.d.app_change_detected
                  /\ EntersShutdown(self, t) => ~c.d.app_change_detected

\* Nothing is pending, and the run's next poll shows another heat level
\* than the last: it is flagged and tracked, and nothing is sent.
C19_Witness ==
    /\ poll.pc = "idle"
    /\ ~self.change_in_progress
    /\ self.previous_heatlevel # NULL
    /\ \E t \in Polled(env.scenario) :
          /\ Answered(t) /\ t.status = 0
          /\ t.heatlevel # self.previous_heatlevel
          /\ t.status = self.previous_operation_mode
          /\ ~EntersShutdown(self, t)
          /\ FlaggedAndTracked(self, CycleOf(t, TRUE, TRUE), t)
          /\ CycleOf(t, TRUE, TRUE).sent = <<>>
          /\ CycleOf(t, TRUE, TRUE).s.target_heatlevel = t.heatlevel

\* ------------------------------------------------------------------------
\* C20

\* Telemetry t shows a change since the previous poll that the pending
\* change of s was not targeting.
Override(s, t) ==
    /\ Answered(t) /\ s.previous_heatlevel # NULL
    /\ \/ /\ t.status = 0
          /\ t.heatlevel # s.previous_heatlevel
          /\ t.heatlevel # s.target_heatlevel
       \/ /\ t.status = 1
          /\ t.boiler_ref # s.previous_temperature
          /\ t.boiler_ref # s.target_temperature
       \/ /\ t.status # s.previous_operation_mode
          /\ t.status # s.target_operation_mode

\* The poll dropped the pending change: it began no resend, sent no
\* set-command and left no change in progress but the one its own
\* critical-fuel shutdown may have begun.
PendingDropped(c, okStop) ==
    /\ c.pc = "idle"
    /\ NoSetCommand(c.sent)
    /\ c.s.resend_attempt = 0
    /\ c.s.change_in_progress =>
          okStop /\ c.sent # <<>> /\ c.sent[Len(c.sent)] = StopCommand

\* C20: a poll that finds a change pending and whose telemetry shows a
\* change the pending command was not targeting clears the pending change on
\* that poll and resends nothing.
C20_OverrideClearsPending ==
    poll.pc = "idle" =>
        \A t \in Telemetries, okStart \in BOOLEAN, okStop \in BOOLEAN :
            (/\ self.change_in_progress
             /\ Override(self, t)
             /\ ~ShouldAutoResume(self, FetchAllData(t, data)))
                => PendingDropped(CycleOf(t, okStart, okStop), okStop)

\* ------------------------------------------------------------------------
\* Overlapping calls: async_set_temperature may be called while another
\* control call is in its settle delay, and polls go on meanwhile.
\* ------------------------------------------------------------------------
CmdOverlappingSetTemperature ==
    \E temperature \in CalledTemperatures(env.scenario), ok \in BOOLEAN :
        OverlappingSetTemperature(temperature, ok)

CmdOverlappingSetTemperatureSettled ==
    \E ok \in BOOLEAN : OverlappingSetTemperatureSettled(ok)

OverlapInit == Setup(Run("overlap", MaxCalls, FALSE))

OverlapNext ==
    \/ CmdPollStart
    \/ CmdPollResent
    \/ CmdSetHeatlevel
    \/ CmdSetHeatlevelSettled
    \/ CmdSetTemperature
    \/ CmdSetTemperatureSettled
    \/ CmdOverlappingSetTemperature
    \/ CmdOverlappingSetTemperatureSettled
    \/ Tick

SpecOverlap == OverlapInit /\ [][OverlapNext]_vars

\* ------------------------------------------------------------------------
\* C21

\* Between two commands of one coroutine the wire has a command of another.
Interleaved(wire) ==
    \E i, j, k \in 1..Len(wire) :
        /\ i < j /\ j < k
        /\ wire[i].by = wire[k].by
        /\ wire[j].by # wire[i].by

\* C21: the commands of overlapping command sequences do not interleave on
\* the wire, and once nothing is in flight a pending change has the targets
\* of one command: not both a heat level and a temperature.
C21_OneSequenceInFlight ==
    /\ ~Interleaved(ghost.wire)
    /\ (Quiet /\ self.change_in_progress)
          => ~(self.target_heatlevel # NULL /\ self.target_temperature # NULL)

\* ------------------------------------------------------------------------
\* C22

\* C22: no poll cycle is suspended in a settle delay between a mode command
\* and its value command, neither in the delay of a resend nor in the delay
\* of the async_set_heatlevel that the wood-mode resume runs.
C22_PollNeverSettles ==
    poll.pc \notin {"resend_sleep", "resume_settle"}

\* ------------------------------------------------------------------------
\* C23

\* A stove whose smoke temperature crosses both thresholds, or one that
\* burns its hopper empty and is refilled.
LatchInit == AlertInit \/ FuelInit

\* The capacities the owner may set the hopper to.
Capacities == {10, 40}

set_pellet_capacity(s, capacity) == [s EXCEPT !.pellet_capacity = capacity]

SetPelletCapacity ==
    /\ \E capacity \in Capacities : self' = set_pellet_capacity(self, capacity)
    /\ UNCHANGED <<data, poll, call, env, ghost>>

LatchNext ==
    FuelPoll \/ RefillPellets \/ ResetRefillCounter \/ SetPelletCapacity \/ Tick

SpecLatch == LatchInit /\ [][LatchNext]_vars

\* percentage > level, for the pellets of d.
PercentageAbove(d, level) == ~PercentageAtMost(d.amount, d.capacity, level)

\* What any poll starting now does with the four latches.
LatchesHold ==
    poll.pc = "idle" =>
      \A t \in Polled("alert") \cup Polled("fuel"), okStop \in BOOLEAN :
         LET c == CycleOf(t, TRUE, okStop)
         IN  /\ t.operating =>
                 /\ c.d.high_smoke_temp_triggered => c.s.high_smoke_alert_sent
                 /\ c.d.low_wood_temp_triggered => c.s.low_wood_alert_sent
                 /\ self.high_smoke_alert_sent =>
                       /\ ~c.d.high_smoke_temp_triggered
                       /\ t.smoke_temp >= self.high_smoke_temp_threshold - 20
                             => c.s.high_smoke_alert_sent
                 /\ self.low_wood_alert_sent =>
                       /\ ~c.d.low_wood_temp_triggered
                       /\ t.smoke_temp <= self.low_wood_temp_threshold + 10
                             => c.s.low_wood_alert_sent
             /\ c.d.hasPellets =>
                 /\ PercentageAbove(c.d, self.notification_level)
                       => ~c.s.low_pellet_notification_sent
                 /\ PercentageAbove(c.d, self.shutdown_level)
                       => ~c.s.shutdown_notification_sent

\* A step that releases a temperature latch is a poll that reads a smoke
\* temperature beyond the hysteresis band.
LatchReleasedBeyondBand ==
    /\ (self.high_smoke_alert_sent /\ ~self'.high_smoke_alert_sent) =>
          \E t \in Polled(env.scenario), okStop \in BOOLEAN :
             /\ PollStart(t, TRUE, okStop)
             /\ t.smoke_temp < self.high_smoke_temp_threshold - 20
    /\ (self.low_wood_alert_sent /\ ~self'.low_wood_alert_sent) =>
          \E t \in Polled(env.scenario), okStop \in BOOLEAN :
             /\ PollStart(t, TRUE, okStop)
             /\ t.smoke_temp > self.low_wood_temp_threshold + 10

\* C23: a poll that fires the high-smoke or the low-wood alert sets its
\* latch; while the latch is set no poll fires the alert again, and the
\* latch is released only by a poll that reads a smoke temperature below
\* threshold - 20 (high smoke) or above threshold + 10 (low wood); a poll
\* that computes a fuel percentage above the notification level, or above
\* the shutdown level, leaves the low-fuel, or the critical-fuel, latch
\* released.
C23_AlertHysteresis == []LatchesHold /\ [][LatchReleasedBeyondBand]_vars

\* The high-smoke alert has fired and the latest poll has read a smoke
\* temperature below the threshold, within the band: the latch is still set.
C23_Witness ==
    /\ self.high_smoke_alert_sent
    /\ ~self.high_smoke_alert_active
    /\ data.smoke_temp < self.high_smoke_temp_threshold
    /\ data.smoke_temp >= self.high_smoke_temp_threshold - 20

\* Both fuel latches are set and a larger hopper has been configured: the
\* next poll computes a percentage above both levels.
FuelLatchesDue ==
    /\ self.low_pellet_notification_sent /\ self.shutdown_notification_sent
    /\ poll.pc = "idle"
    /\ \E t \in Polled("fuel") :
          PercentageAbove(CycleOf(t, TRUE, TRUE).d, self.notification_level)

\* ------------------------------------------------------------------------
\* C24

set_auto_shutdown_enabled(s, enabled) == [s EXCEPT !.auto_shutdown_enabled = enabled]

SetAutoShutdownEnabled ==
    /\ \E enabled \in BOOLEAN : self' = set_auto_shutdown_enabled(self, enabled)
    /\ UNCHANGED <<data, poll, call, env, ghost>>

\* A stove that burns its hopper empty, with the auto-shutdown switched on
\* and off, and refilled.
ShutdownNext == FuelPoll \/ RefillPellets \/ SetAutoShutdownEnabled \/ Tick

SpecShutdown == FuelInit /\ [][ShutdownNext]_vars

Stop == Cmd("misc.stop", 1)

Sends(sent, cmd) == \E i \in 1..Len(sent) : sent[i] = cmd

\* What any poll starting now does about the shutdown.
StopsOnce ==
    poll.pc = "idle" =>
      \A t \in Polled("fuel"), okStop \in BOOLEAN :
         LET c == CycleOf(t, TRUE, okStop)
             critical == PercentageAtMost(c.d.amount, c.d.capacity, self.shutdown_level)
         IN  c.d.hasPellets =>
               /\ (self.auto_shutdown_enabled /\ critical
                       /\ ~self.shutdown_notification_sent)
                     => /\ Sends(c.sent, Stop)
                        /\ c.s.shutdown_notification_sent
               /\ self.shutdown_notification_sent
                     => /\ ~Sends(c.sent, Stop)
                        /\ critical => c.s.shutdown_notification_sent
               /\ ~self.auto_shutdown_enabled => ~Sends(c.sent, Stop)
               /\ Sends(c.sent, Stop) => c.s.shutdown_notification_sent

\* A step that releases the shutdown latch is a refill, or a poll that
\* computes a percentage above the shutdown level.
StopLatchReleased ==
    (self.shutdown_notification_sent /\ ~self'.shutdown_notification_sent) =>
        \/ RefillPellets
        \/ \E t \in Polled(env.scenario), okStop \in BOOLEAN :
              /\ PollStart(t, TRUE, okStop)
              /\ PercentageAbove(data', self.shutdown_level)

\* C24: with auto-shutdown enabled, a poll that computes a percentage at or
\* below the shutdown level while no stop has been issued for this
\* shortage sends the stop command and sets the latch; while the latch is
\* set no poll sends the stop command, and the latch is released only by a
\* poll that computes a percentage above the shutdown level or by
\* refill_pellets; with auto-shutdown disabled no poll sends a stop command.
C24_AutoShutdownOnce == []StopsOnce /\ [][StopLatchReleased]_vars

\* The stop command has been issued, the hopper is still at or below the
\* shutdown level, and the auto-shutdown is enabled: the next poll computes
\* a critical percentage again.
C24_Witness ==
    /\ self.auto_shutdown_enabled /\ self.shutdown_notification_sent
    /\ poll.pc = "idle" /\ data.hasPellets /\ data.shutdown_alert
    /\ \E t \in Polled("fuel") :
          LET c == CycleOf(t, TRUE, TRUE)
          IN  /\ c.d.hasPellets
              /\ PercentageAtMost(c.d.amount, c.d.capacity, self.shutdown_level)
              /\ ~Sends(c.sent, Stop)

\* ------------------------------------------------------------------------
\* predict_pellet_depletion, "TEMPERATURE MODE (Complex with cycles)"
\* ------------------------------------------------------------------------
Lt(a, b) == \E x \in {a}, y \in {b} : x.num * y.den < y.num * x.den

\* round(x) of Python: to the nearest integer, a half to the even one.
Round(f) ==
    LET floor == f.num \div f.den
        twice == 2 * (f.num - floor * f.den)
    IN  CASE twice < f.den -> floor
          [] twice > f.den -> floor + 1
          [] OTHER -> IF floor % 2 = 0 THEN floor ELSE floor + 1

\* sum(o[field] for o in matches) / len(matches), matches the observations
\* under keys.
RECURSIVE SumOf(_, _, _)
SumOf(dict, keys, field) ==
    IF keys = {} THEN Whole(0)
    ELSE LET k == CHOOSE key \in keys : TRUE
         IN Plus(dict[k][field], SumOf(dict, keys \ {k}, field))

MeanOf(dict, keys, field) == Over(SumOf(dict, keys, field), Whole(Cardinality(keys)))

_get_outdoor_temp_bucket(outdoor_temp) == (outdoor_temp \div 2) * 2

DefaultHeatingRate(heatlevel) ==
    CASE heatlevel = 1 -> Fraction(3, 10)
      [] heatlevel = 2 -> Fraction(6, 10)
      [] heatlevel = 3 -> Whole(1)
      [] OTHER -> Fraction(6, 10)

\* The keys among keys whose observations count.
Counted(dict, keys) == { k \in keys : dict[k].count >= 1 }

\* _get_heating_rate: the exact bucket, else the mean over the buckets of the
\* same heat level and delta, else of the same heat level and outdoor
\* temperature, else of the same heat level, else the default.
_get_heating_rate(ld, heatlevel, temp_delta, outdoor_temp) ==
    LET obs == ld.heating_observations
        temp_delta_bucket == Round(Times(temp_delta, Whole(2)))
        outdoor_bucket == IF outdoor_temp # NULL
                          THEN _get_outdoor_temp_bucket(outdoor_temp) ELSE NULL
        exact == Counted(obs, {<<heatlevel, temp_delta_bucket, outdoor_bucket>>}
                                \cap DOMAIN obs)
        same_delta == Counted(obs, { k \in DOMAIN obs :
                                       k[1] = heatlevel /\ k[2] = temp_delta_bucket })
        same_outdoor == Counted(obs, { k \in DOMAIN obs :
                                         k[1] = heatlevel /\ k[3] = outdoor_bucket })
        same_level == Counted(obs, { k \in DOMAIN obs : k[1] = heatlevel })
    IN  CASE exact # {} -> MeanOf(obs, exact, "avg_heating_rate")
          [] outdoor_bucket # NULL /\ same_delta # {} ->
               MeanOf(obs, same_delta, "avg_heating_rate")
          [] outdoor_bucket # NULL /\ same_outdoor # {} ->
               MeanOf(obs, same_outdoor, "avg_heating_rate")
          [] same_level # {} -> MeanOf(obs, same_level, "avg_heating_rate")
          [] OTHER -> DefaultHeatingRate(heatlevel)

\* _get_cooling_rate, with the same ladder over (outdoor, start) buckets.
_get_cooling_rate(ld, start_room_temp, outdoor_temp) ==
    LET obs == ld.cooling_observations
        start_temp_bucket == (Floor(start_room_temp) \div 2) * 2
        outdoor_bucket == IF outdoor_temp # NULL
                          THEN _get_outdoor_temp_bucket(outdoor_temp) ELSE NULL
        exact == Counted(obs, {<<outdoor_bucket, start_temp_bucket>>} \cap DOMAIN obs)
        same_outdoor == Counted(obs, { k \in DOMAIN obs : k[1] = outdoor_bucket })
        same_start == Counted(obs, { k \in DOMAIN obs : k[2] = start_temp_bucket })
        all_obs == Counted(obs, DOMAIN obs)
    IN  CASE exact # {} -> MeanOf(obs, exact, "avg_cooling_rate")
          [] outdoor_bucket # NULL /\ same_outdoor # {} ->
               MeanOf(obs, same_outdoor, "avg_cooling_rate")
          [] same_start # {} -> MeanOf(obs, same_start, "avg_cooling_rate")
          [] all_obs # {} -> MeanOf(obs, all_obs, "avg_cooling_rate")
          [] OTHER -> Fraction(3, 10)

max_iterations == 100
max_step_size == 3600

is_running(d) == d.state \in {"2", "4", "5", "6", "32"}

\* The locals of the simulation as the loop is entered.
SimulationStart(s, d) ==
    [total_time_seconds |-> Whole(0),
     cycles_count |-> 0,
     pellets_left |-> Whole(pellets_remaining(d)),
     sim_room_temp |-> Whole(IF d.boiler_temp = NULL THEN 20 ELSE d.boiler_temp),
     target_temp |-> Whole(IF d.boiler_ref = NULL THEN 20 ELSE d.boiler_ref),
     sim_state |-> IF is_running(d) THEN "burning" ELSE "waiting",
     sim_heatlevel |-> IF d.heatlevel = NULL THEN 2 ELSE d.heatlevel,
     time_at_current_level |-> Whole(0),
     time_at_level_1 |-> IF d.heatlevel = 1 /\ is_running(d) /\ d.state \in {"5", "32"}
                         THEN Whole(10 * 60) ELSE Whole(0),
     iteration |-> 0,
     \* the step taken last: its phase, its length and what ended it
     phase |-> "none", actual_step |-> Whole(0), step_event |-> "none"]

\* Where the simulation stands and its locals.
Sim(pc, v) == [pc |-> pc, v |-> v]

\* SimulationLoop as it would be with no cap on the iterations.
SimulationLoopUncapped(ld, v0) ==
    IF ~(v0.pellets_left.num > 0)
    THEN Sim("done", v0)
    ELSE LET v == [v0 EXCEPT !.iteration = @ + 1]
         IN  IF v.sim_state = "burning"
             THEN LET w == [v EXCEPT
                              !.cycles_count = @ + 1,
                              !.pellets_left =
                                  Minus(@, ld.startup_observations.avg_consumption),
                              !.total_time_seconds =
                                  Plus(@, ld.startup_observations.avg_duration)]
                  IN  IF w.pellets_left.num <= 0 THEN Sim("done", w)
                      ELSE Sim("burn", w)
             ELSE Sim("wait", v)

\* The head of the outer loop, and the startup of a burning phase.
SimulationLoop(ld, v0) ==
    IF ~(v0.pellets_left.num > 0 /\ v0.iteration < max_iterations)
    THEN Sim("done", v0)
    ELSE LET v == [v0 EXCEPT !.iteration = @ + 1]
         IN  IF v.sim_state = "burning"
             THEN LET w == [v EXCEPT
                              !.cycles_count = @ + 1,
                              !.pellets_left =
                                  Minus(@, ld.startup_observations.avg_consumption),
                              !.total_time_seconds =
                                  Plus(@, ld.startup_observations.avg_duration)]
                  IN  IF w.pellets_left.num <= 0 THEN Sim("done", w)
                      ELSE Sim("burn", w)
             ELSE Sim("wait", v)

Event(time_to_event, next_event) == [time_to_event |-> time_to_event, next_event |-> next_event]

\* "Calculate time to next event", and the step the burning phase takes.
BurnEvent(v, heating_rate, consumption_rate, shutdown_delta) ==
    LET ten_minutes == Whole(10 * 60)
        temp_in_10min == Plus(v.sim_room_temp, Over(Times(heating_rate, Whole(10)), Whole(60)))
        temp_delta_in_10min == Minus(v.target_temp, temp_in_10min)
        time_to_empty_seconds == Times(Over(v.pellets_left, consumption_rate), Whole(3600))
        level == IF ~Lt(v.time_at_current_level, ten_minutes)
                 THEN CASE Lt(Fraction(1, 2), temp_delta_in_10min) /\ v.sim_heatlevel < 3 ->
                             Event(ten_minutes, "increase_level")
                        [] Lt(temp_delta_in_10min, Fraction(0 - 1, 2)) /\ v.sim_heatlevel > 1 ->
                             Event(ten_minutes, "decrease_level")
                        [] OTHER -> Event(NULL, "none")
                 ELSE Event(Minus(ten_minutes, v.time_at_current_level), "level_change_check")
        temp_to_gain == Minus(Plus(v.target_temp, shutdown_delta), v.sim_room_temp)
        time_to_shutdown_seconds == Times(Over(temp_to_gain, heating_rate), Whole(3600))
        shutdown ==
            IF Lt(Fraction(5, 100), heating_rate)
            THEN IF /\ temp_to_gain.num > 0
                    /\ v.sim_heatlevel = 1 /\ ~Lt(v.time_at_level_1, ten_minutes)
                    /\ (level.next_event = "none"
                          \/ Lt(time_to_shutdown_seconds, level.time_to_event))
                 THEN Event(time_to_shutdown_seconds, "shutdown")
                 ELSE level
            ELSE IF level.next_event = "none"
                 THEN Event(time_to_empty_seconds, "pellets_empty")
                 ELSE level
        empty == IF shutdown.next_event = "none"
                    \/ Lt(time_to_empty_seconds, shutdown.time_to_event)
                 THEN Event(time_to_empty_seconds, "pellets_empty")
                 ELSE shutdown
    IN  IF Lt(Whole(max_step_size), empty.time_to_event)
           /\ empty.next_event \notin {"pellets_empty", "increase_level",
                                        "decrease_level", "level_change_check"}
        THEN Event(Whole(max_step_size), "temp_update")
        ELSE Event(IF empty.time_to_event.num < 0 THEN Whole(0) ELSE empty.time_to_event,
                   empty.next_event)

\* "Update state for this step"
BurnApply(v, heating_rate, consumption_rate, e) ==
    LET left == Minus(v.pellets_left,
                      Times(consumption_rate, Over(e.time_to_event, Whole(3600))))
    IN  [v EXCEPT
           !.sim_room_temp = Plus(@, Over(Times(heating_rate, e.time_to_event), Whole(3600))),
           !.pellets_left = IF left.num < 0 THEN Whole(0) ELSE left,
           !.total_time_seconds = Plus(@, e.time_to_event),
           !.time_at_current_level = Plus(@, e.time_to_event),
           !.time_at_level_1 = IF v.sim_heatlevel = 1 THEN Plus(@, e.time_to_event) ELSE @,
           !.phase = "burning", !.actual_step = e.time_to_event,
           !.step_event = e.next_event]

NewLevel(v, heatlevel) ==
    [v EXCEPT !.sim_heatlevel = heatlevel,
              !.time_at_current_level = Whole(0),
              !.time_at_level_1 = IF heatlevel = 1 THEN Whole(0) ELSE @]

\* "Handle event"; where the burning phase goes on after a break.
BurnHandle(v) ==
    CASE v.step_event = "pellets_empty" \/ v.pellets_left.num <= 0 ->
           IF v.pellets_left.num <= 0 THEN Sim("done", v) ELSE Sim("loop", v)
      [] v.step_event \in {"temp_update", "level_change_check"} -> Sim("burn", v)
      [] v.step_event = "increase_level" ->
           Sim("burn", NewLevel(v, Min(3, v.sim_heatlevel + 1)))
      [] v.step_event = "decrease_level" ->
           Sim("burn", NewLevel(v, Max(1, v.sim_heatlevel - 1)))
      [] OTHER -> \* "shutdown": "Enter waiting period"
           Sim("wait", [v EXCEPT !.sim_state = "waiting", !.sim_heatlevel = 1,
                                 !.time_at_current_level = Whole(0),
                                 !.time_at_level_1 = Whole(0)])

\* A pass of the burning phase with the rates looked up; each stage is
\* handed on as a value.
BurnPass(v, heating_rate, consumption_rate, shutdown_delta) ==
    CHOOSE sim \in
        { BurnHandle(w) :
            w \in { BurnApply(v, heating_rate, consumption_rate, e) :
                      e \in {BurnEvent(v, heating_rate, consumption_rate,
                                       shutdown_delta)} } } : TRUE

\* One pass of "Simulate burning until next event" with the outdoor
\* temperature the forecast, the sensor or the fallback gives.
SimulationBurn(ld, v, outdoor_temp) ==
    CHOOSE sim \in
        { CASE v.pellets_left.num <= 0 -> Sim("done", v)
            [] consumption_rate.num <= 0 -> Sim("insufficient_data", v)
            [] OTHER -> BurnPass(v, heating_rate, consumption_rate,
                                 ld.shutdown_restart_deltas.shutdown.avg_delta) :
            heating_rate \in {_get_heating_rate(ld, v.sim_heatlevel,
                                                Minus(v.target_temp, v.sim_room_temp),
                                                outdoor_temp)},
            consumption_rate \in {_get_consumption_rate(ld, v.sim_heatlevel)} } : TRUE

\* "After waiting, restart at level 1"
Restart(v) ==
    Sim("loop", [v EXCEPT !.sim_state = "burning", !.sim_heatlevel = 1,
                          !.time_at_current_level = Whole(0),
                          !.time_at_level_1 = Whole(0)])

\* A pass of the waiting phase with the cooling rate looked up.
WaitPass(v, restart_temp, cooling_rate) ==
    LET temp_to_lose == Minus(v.sim_room_temp, restart_temp)
        time_to_restart == Times(Over(temp_to_lose, cooling_rate), Whole(3600))
        hour == Lt(Whole(max_step_size), time_to_restart)
        actual_step == IF hour THEN Whole(max_step_size) ELSE time_to_restart
        temp_decrease == IF hour
                         THEN Times(cooling_rate, Over(actual_step, Whole(3600)))
                         ELSE temp_to_lose
        w == [v EXCEPT !.sim_room_temp = Minus(@, temp_decrease),
                       !.total_time_seconds = Plus(@, actual_step),
                       !.phase = "waiting", !.actual_step = actual_step,
                       !.step_event = IF hour THEN "temp_update" ELSE "restart"]
    IN  CASE ~(Lt(restart_temp, v.sim_room_temp) /\ v.pellets_left.num > 0) -> Restart(v)
          [] ~(temp_to_lose.num > 0 /\ cooling_rate.num > 0) -> Restart(v)
          [] ~Lt(restart_temp, w.sim_room_temp) ->
               Restart([w EXCEPT !.sim_room_temp = restart_temp])
          [] OTHER -> Sim("wait", w)

\* One pass of "Simulate cooling in steps until restart temperature reached".
SimulationWait(ld, v, outdoor_temp) ==
    CHOOSE sim \in
        { WaitPass(v, restart_temp, cooling_rate) :
            restart_temp \in {Minus(v.target_temp,
                                    ld.shutdown_restart_deltas.restart.avg_delta)},
            cooling_rate \in {_get_cooling_rate(ld, v.sim_room_temp, outdoor_temp)} } : TRUE

\* The classification with the low test before the high test.
LowBeforeHigh(s, operation_mode, cycles_predicted, external_temperature) ==
    CASE \/ ~sufficient_data(s.learning_data)
         \/ cycles_predicted >= 8
         \/ (s.external_temp_sensor # "none" /\ external_temperature = NULL) -> "low"
      [] sufficient_data(s.learning_data) /\ RecentData(s.learning_data)
           /\ operation_mode = 0 /\ cycles_predicted < 3 -> "high"
      [] OTHER -> "medium"

\* _calculate_confidence_level; external_temperature is what
\* _get_external_temperature returns.
_calculate_confidence_level(s, operation_mode, cycles_predicted, external_temperature) ==
    CASE sufficient_data(s.learning_data) /\ RecentData(s.learning_data)
           /\ operation_mode = 0 /\ cycles_predicted < 3 -> "high"
      [] \/ ~sufficient_data(s.learning_data)
         \/ cycles_predicted >= 8
         \/ (s.external_temp_sensor # "none" /\ external_temperature = NULL) -> "low"
      [] OTHER -> "medium"

\* ------------------------------------------------------------------------
\* The predictor as a machine: a sensor asks for the prediction, and in
\* temperature mode the simulation runs pass by pass to its result.  The
\* method is synchronous: no poll and no call runs before it has returned.
\* ------------------------------------------------------------------------
SimScenarios == {"sim_cycles", "sim_forecast"}

\* What the forecast, the outdoor sensor or the fallback may give a pass.
OutdoorTemps(scenario) == IF scenario = "sim_forecast" THEN {0, 10} ELSE {0}

\* What _get_external_temperature may return.
ExternalTemperatures(s) == IF s.external_temp_sensor = "none" THEN {NULL} ELSE {NULL, 10}

SimInit ==
    \E scenario \in SimScenarios :
        /\ env = Run(scenario, NULL, FALSE)
        /\ self = [async_load_pellet_data(InitSelf, StoredBlob(scenario))
                     EXCEPT !.store = StoredBlob(scenario),
                            !.external_temp_sensor =
                                IF scenario = "sim_forecast" THEN "sensor.outdoor"
                                ELSE "none"]
        /\ data = async_setup_entry(self)
        /\ poll = PollIdle
        /\ call = CallIdle
        /\ ghost = InitGhost

SimPoll ==
    /\ call.pc = "idle"
    /\ \E t \in Polled(env.scenario) : PollStart(t, TRUE, TRUE)

\* The simulation goes on at sim.pc with the locals sim.v.
SimAdvance(sim) ==
    /\ call' = [call EXCEPT !.pc = sim.pc, !.arg = sim.v]
    /\ UNCHANGED <<self, data, poll, env, ghost>>

\* The sensor asks: every result but that of temperature mode is there at
\* once.
PredictStart ==
    /\ call.pc = "idle" /\ poll.pc = "idle"
    /\ \E p \in {predict_pellet_depletion(self, data)} :
         IF p.status = "predicted"
         THEN SimAdvance(Sim("loop", SimulationStart(self, data)))
         ELSE /\ \E external_temperature \in ExternalTemperatures(self) :
                   ghost' = [ghost EXCEPT
                               !.prediction = p,
                               !.confidence =
                                   CASE p.status = "ok" ->
                                          _calculate_confidence_level(
                                              self, 0, 0, external_temperature)
                                     [] p.status = "empty" -> "high"
                                     [] OTHER -> "none",
                               !.classified = (p.status = "ok"),
                               !.sufficient_data = sufficient_data(self.learning_data),
                               !.operation_mode = data.operation_mode,
                               !.cycles_predicted = 0,
                               !.external_temperature = external_temperature]
              /\ UNCHANGED <<self, data, poll, call, env>>

SimLoop ==
    /\ call.pc = "loop"
    /\ \E sim \in {SimulationLoop(self.learning_data, call.arg)} : SimAdvance(sim)

SimBurn ==
    /\ call.pc = "burn"
    /\ \E outdoor_temp \in OutdoorTemps(env.scenario) :
         \E sim \in {SimulationBurn(self.learning_data, call.arg, outdoor_temp)} :
            SimAdvance(sim)

SimWait ==
    /\ call.pc = "wait"
    /\ \E outdoor_temp \in OutdoorTemps(env.scenario) :
         \E sim \in {SimulationWait(self.learning_data, call.arg, outdoor_temp)} :
            SimAdvance(sim)

\* "Format results", or the return from within the burning phase.
SimReturn ==
    /\ call.pc \in {"done", "insufficient_data"}
    /\ \E external_temperature \in ExternalTemperatures(self) :
         ghost' = [ghost EXCEPT
                     !.prediction =
                         IF call.pc = "done"
                         THEN Prediction("ok", Floor(call.arg.total_time_seconds))
                         ELSE Prediction("insufficient_data", NULL),
                     !.confidence =
                         IF call.pc = "done"
                         THEN _calculate_confidence_level(
                                  self, 1, call.arg.cycles_count, external_temperature)
                         ELSE "none",
                     !.classified = (call.pc = "done"),
                     !.sufficient_data = sufficient_data(self.learning_data),
                     !.operation_mode = 1,
                     !.cycles_predicted = call.arg.cycles_count,
                     !.external_temperature = external_temperature]
    /\ call' = CallIdle
    /\ UNCHANGED <<self, data, poll, env>>

SimSteps == SimLoop \/ SimBurn \/ SimWait \/ SimReturn

SimNext == SimPoll \/ PredictStart \/ SimLoop \/ SimBurn \/ SimWait \/ SimReturn

SpecSim == SimInit /\ [][SimNext]_vars

\* Once called, the method runs on to its return.
LiveSpecSim == SpecSim /\ WF_vars(SimSteps)

\* ------------------------------------------------------------------------
\* C25

Simulating == call.pc \in {"loop", "burn", "wait", "done"}

\* The outer loop has run at most max_iterations times, and it is left with
\* no fuel or at the cap.
CappedAndEnded ==
    /\ Simulating => call.arg.iteration <= max_iterations
    /\ call.pc = "done" =>
         \/ call.arg.pellets_left.num <= 0
         \/ call.arg.iteration = max_iterations

\* A pass of the burning phase consumes fuel; a pass of the waiting phase
\* lowers the room temperature, and the phase is left no warmer than it was
\* entered.
PassMakesProgress ==
    /\ call.pc = "burn" => Lt(call'.arg.pellets_left, call.arg.pellets_left)
    /\ (call.pc = "wait" /\ call'.pc = "wait")
          => Lt(call'.arg.sim_room_temp, call.arg.sim_room_temp)
    /\ (call.pc = "wait" /\ call'.pc = "loop")
          => ~Lt(call.arg.sim_room_temp, call'.arg.sim_room_temp)

\* C25: with learned tables whose consumption rates are positive, the
\* temperature-mode simulation returns: its outer loop runs at most 100
\* times, every pass of the burning phase consumes fuel and every pass of
\* the waiting phase lowers the room temperature towards the restart
\* temperature, and the loop is left on fuel exhaustion or at the cap.
C25_SimulationTerminates ==
    /\ []CappedAndEnded
    /\ [][PassMakesProgress]_vars
    /\ (call.pc # "idle") ~> (call.pc = "idle")

\* The loop has been left at the cap with fuel remaining, after a hundred
\* burning phases.
C25_Witness ==
    /\ call.pc = "done"
    /\ call.arg.iteration = max_iterations
    /\ call.arg.pellets_left.num > 0
    /\ call.arg.cycles_count > 1

\* C26: no single step of the temperature-mode simulation, in the burning
\* phase or in the waiting phase and whatever event ends it, advances the
\* simulated time by more than 3600 seconds.
C26_StepAtMostHour ==
    Simulating => ~Lt(Whole(max_step_size), call.arg.actual_step)

\* ------------------------------------------------------------------------
\* C27: the confidence of a prediction
\* ------------------------------------------------------------------------
\* The three tests of the classification, on what held when the latest
\* confidence was given.
HighCriteria ==
    /\ ghost.sufficient_data
    /\ ghost.operation_mode = 0
    /\ ghost.cycles_predicted < 3

LowCriteria ==
    \/ ~ghost.sufficient_data
    \/ ghost.cycles_predicted >= 8
    \/ (self.external_temp_sensor # "none" /\ ghost.external_temperature = NULL)

Seconds(stamp) == 60 * Elapsed(stamp)

is_actively_burning(d) == d.state \in {"5", "32"}
is_starting_up(d) == d.state \in {"2", "4"}
is_burning(d) == is_actively_burning(d) \/ is_starting_up(d)
is_waiting(d) == d.state = "6"
is_in_startup(d) == d.state \in {"2", "4", "32"}
reached_stable(d) == d.state = "5"

\* What the method has done so far: the coordinator, the observations it
\* has recorded in this call, and whether it has raised.
Tracked(s, recorded, raises) == [s |-> s, recorded |-> recorded, raises |-> raises]

\* One recorded observation, or delta.
Observed(kind, duration_seconds, consumption_kg) ==
    [kind |-> kind, duration_seconds |-> duration_seconds,
     consumption_kg |-> consumption_kg]

HeatingSession(s, d) ==
    [open |-> TRUE, heatlevel |-> d.heatlevel, start_room_temp |-> d.boiler_temp,
     start_learning_consumption |-> s.learning_consumption_total,
     target_temp |-> d.boiler_ref, stable_start_time |-> Now]

CoolingSession(d) ==
    [open |-> TRUE, start_time |-> Now, start_room_temp |-> d.boiler_temp,
     target_temp |-> d.boiler_ref, operation_mode |-> d.operation_mode]

StartupSession(s) ==
    [open |-> TRUE, start_time |-> Now,
     start_learning_consumption |-> s.learning_consumption_total]

\* "STARTUP SESSION TRACKING"
TrackStartup(s, d) ==
    LET session == s.current_startup_session
        duration == Seconds(session.start_time)
        consumption == s.learning_consumption_total - session.start_learning_consumption
        closed == [s EXCEPT !.current_startup_session = NoStartupSession]
    IN  CASE is_in_startup(d) ->
               Tracked(IF ~session.open
                       THEN [s EXCEPT !.current_startup_session = StartupSession(s)]
                       ELSE s, <<>>, FALSE)
          [] reached_stable(d) /\ session.open ->
               IF duration > 60 /\ consumption > 0
               THEN IF StartupRaises(s.learning_data)
                    THEN Tracked(s, <<>>, TRUE)
                    ELSE Tracked([closed EXCEPT !.learning_data =
                                     _record_startup_observation(@, duration, consumption)],
                                 <<Observed("startup", duration, consumption)>>, FALSE)
               ELSE Tracked(closed, <<>>, FALSE)
          [] ~is_in_startup(d) /\ ~reached_stable(d) /\ session.open ->
               Tracked(closed, <<>>, FALSE)
          [] OTHER -> Tracked(s, <<>>, FALSE)

\* The stable period is recorded however short it was.
RecordAnyPeriod(tr, d, minimum) ==
    LET session == tr.s.current_heating_session
        stable_duration == Seconds(session.stable_start_time)
        consumption_kg ==
            tr.s.learning_consumption_total - session.start_learning_consumption
    IN  Tracked([tr.s EXCEPT !.learning_data =
                    _record_heating_observation(@, session.heatlevel,
                        stable_duration, session.start_room_temp, d.boiler_temp,
                        session.target_temp, consumption_kg)],
                Append(tr.recorded,
                       Observed("heating", stable_duration, consumption_kg)),
                FALSE)

\* The heating observation of the open session is recorded if its stable
\* period has lasted minimum seconds; the session is left as it is.
RecordStablePeriod(tr, d, minimum) ==
    LET session == tr.s.current_heating_session
        stable_duration == Seconds(session.stable_start_time)
        consumption_kg ==
            tr.s.learning_consumption_total - session.start_learning_consumption
    IN  IF stable_duration >= minimum
        THEN Tracked([tr.s EXCEPT !.learning_data =
                         _record_heating_observation(@, session.heatlevel,
                             stable_duration, session.start_room_temp, d.boiler_temp,
                             session.target_temp, consumption_kg)],
                     Append(tr.recorded,
                            Observed("heating", stable_duration, consumption_kg)),
                     FALSE)
        ELSE tr

\* The cooling observation of the open session is recorded if it has lasted
\* 30 minutes; the session is left as it is.
RecordCooling(tr, d) ==
    LET session == tr.s.current_cooling_session
        duration == Seconds(session.start_time)
    IN  IF duration >= 1800
        THEN Tracked([tr.s EXCEPT !.learning_data =
                         _record_cooling_observation(@, duration,
                             session.start_room_temp, d.boiler_temp)],
                     Append(tr.recorded, Observed("cooling", duration, NULL)), FALSE)
        ELSE tr

\* "Only record restart delta if this was AUTOMATIC"
RecordRestart(tr, d) ==
    LET session == tr.s.current_cooling_session
        target_unchanged == session.target_temp = d.boiler_ref
        mode_unchanged == session.operation_mode = d.operation_mode /\ d.operation_mode = 1
    IN  IF Seconds(session.start_time) >= 1800
           /\ target_unchanged /\ mode_unchanged /\ ~d.app_change_detected
        THEN Tracked([tr.s EXCEPT !.learning_data =
                         RecordRestartDelta(@, session.target_temp, d.boiler_temp)],
                     Append(tr.recorded,
                            Observed("restart_delta", Seconds(session.start_time), NULL)),
                     FALSE)
        ELSE tr

\* "HEATING SESSION TRACKING": the stove is in stable operation.
TrackBurning(tr, d) ==
    LET session == tr.s.current_heating_session
        snapshot == RecordStablePeriod(tr, d, 1800)
        changed == RecordStablePeriod(tr, d, 900)
        heated ==
            CASE ~session.open ->
                   [tr EXCEPT !.s.current_heating_session = HeatingSession(tr.s, d)]
              [] session.heatlevel # d.heatlevel ->
                   [changed EXCEPT !.s.current_heating_session = HeatingSession(tr.s, d)]
              [] Seconds(session.stable_start_time) >= 1800 ->
                   [snapshot EXCEPT !.s.current_heating_session =
                       [session EXCEPT
                          !.stable_start_time = Now,
                          !.start_room_temp = d.boiler_temp,
                          !.start_learning_consumption = tr.s.learning_consumption_total]]
              [] OTHER -> tr
        cooled == RecordRestart(RecordCooling(heated, d), d)
    IN  IF heated.s.current_cooling_session.open /\ d.operation_mode = 1
        THEN [cooled EXCEPT !.s.current_cooling_session = NoCoolingSession]
        ELSE heated

\* "Record shutdown delta if we just stopped (only if not interrupted)"
RecordShutdown(tr, d) ==
    LET heating_session_target == tr.s.current_heating_session.target_temp
        heating_session_mode == d.operation_mode
    IN  IF /\ tr.s.current_heating_session.open
           /\ heating_session_mode = 1
           /\ heating_session_target = d.boiler_ref
        THEN Tracked([tr.s EXCEPT !.learning_data =
                         RecordShutdownDelta(@, d.boiler_temp, d.boiler_ref)],
                     Append(tr.recorded, Observed("shutdown_delta", NULL, NULL)), FALSE)
        ELSE tr

\* "COOLING SESSION TRACKING": the stove waits in temperature mode.
TrackWaiting(tr, d) ==
    LET delta == RecordShutdown(tr, d)
        entered == IF ~tr.s.current_cooling_session.open
                   THEN [delta EXCEPT !.s.current_cooling_session = CoolingSession(d)]
                   ELSE tr
        heated == RecordStablePeriod(entered, d, 900)
    IN  IF entered.s.current_heating_session.open
        THEN [heated EXCEPT !.s.current_heating_session = NoHeatingSession]
        ELSE entered

\* "END OF OPERATION - RECORD FINAL SESSION"
TrackStopped(tr, d) ==
    LET heated == RecordStablePeriod(tr, d, 900)
        ended == IF tr.s.current_heating_session.open
                 THEN [heated EXCEPT !.s.current_heating_session = NoHeatingSession]
                 ELSE tr
        cooled == RecordCooling(ended, d)
    IN  IF ended.s.current_cooling_session.open /\ d.operation_mode = 1
        THEN [cooled EXCEPT !.s.current_cooling_session = NoCoolingSession]
        ELSE ended

\* _track_learning_state_changes
_track_learning_state_changes(s, d) ==
    IF ~d.hasOperating \/ ~d.hasStatus THEN Tracked(s, <<>>, FALSE)
    ELSE IF d.operation_mode \notin {0, 1}
    THEN Tracked([s EXCEPT !.current_heating_session = NoHeatingSession,
                           !.current_cooling_session = NoCoolingSession,
                           !.last_learning_state = "none"], <<>>, FALSE)
    ELSE LET startup == TrackStartup(s, d)
             session == CASE is_actively_burning(d) -> TrackBurning(startup, d)
                          [] is_waiting(d) /\ d.operation_mode = 1 ->
                               TrackWaiting(startup, d)
                          [] OTHER -> startup
             final == IF ~is_burning(d) /\ ~is_waiting(d)
                      THEN TrackStopped(session, d)
                      ELSE session
         IN  IF startup.raises THEN startup
             ELSE [final EXCEPT !.s.last_learning_state = d.state]

\* _update_learning_consumption_tracker
_update_learning_consumption_tracker(s, d) ==
    LET increment == d.day - s.last_consumption_day_for_learning
        added == IF increment < 0 THEN d.day ELSE increment
    IN  CASE ~d.hasConsumption -> s
          [] s.last_consumption_day_for_learning = NULL ->
               [s EXCEPT !.last_consumption_day_for_learning = d.day]
          [] OTHER ->
               [s EXCEPT !.learning_consumption_total = IF added > 0 THEN @ + added ELSE @,
                         !.last_consumption_day_for_learning = d.day]

\* ------------------------------------------------------------------------
\* The learning sessions as a machine: polls of a stove that starts, burns,
\* waits, stops and burns wood, minutes apart.
\* ------------------------------------------------------------------------
MaxMinutes == 30
MaxTracked == 2

\* The ages, in minutes, at which the polls of a run find a session: around
\* the gates of one minute, of 15 minutes and of 30 minutes.
Ages == {0, 1, 2, 14, 15, 29, MaxMinutes}

TrackScenarios == {"track_heating", "track_waiting", "track_startup"}

TrackInit == \E scenario \in TrackScenarios : Setup(Run(scenario, NULL, FALSE))

\* The heating session of s is one that the poll of d has opened, or opened
\* anew for another heat level.
OpenedAnew(before, s, d) ==
    /\ s.current_heating_session.open
    /\ \/ ~before.current_heating_session.open
       \/ before.current_heating_session.heatlevel # d.heatlevel

\* What the poll of d, which found the coordinator as before and whose
\* tracking is tr, leaves for the properties to read.
GhostAfterTracking(g, before, d, tr) ==
    [g EXCEPT
       !.recorded = tr.recorded,
       !.tracked = [operation_mode |-> d.operation_mode, state |-> d.state,
                    target_held |->
                        /\ before.current_heating_session.open
                        /\ before.current_heating_session.target_temp = d.boiler_ref,
                    mode_steady |-> ghost.heating_modes \subseteq {d.operation_mode},
                    entered_waiting |->
                        /\ ~before.current_cooling_session.open
                        /\ tr.s.current_cooling_session.open],
       !.heating_modes =
           CASE ~tr.s.current_heating_session.open -> {}
             [] OpenedAnew(before, tr.s, d) -> {d.operation_mode}
             [] OTHER -> ghost.heating_modes \cup {d.operation_mode}]

\* The runs stay within one day: the daily counter is not reset.
SameDay(d) ==
    (d.hasConsumption /\ self.has_last_consumption_day_value)
        => d.day >= self.last_consumption_day_value

\* A poll cycle that is not suspended, through "Track state changes for
\* learning" and "Update learning consumption tracker".  When the tracking
\* raises, the cycle fails: the coordinator stays as the raise left it and
\* the previous snapshot is kept.
TrackPoll ==
    /\ poll.pc = "idle"
    /\ ObservationCount(self.learning_data) < MaxTracked
    /\ \E t \in Polled(env.scenario), okStop \in Outcomes(self.auto_shutdown_enabled) :
         \E d \in {FetchAllData(t, data)} :
            /\ WithinBounds(d) /\ ~CycleRaises(d)
            /\ SameDay(d)
            /\ \E c \in {CycleStart(self, d, TRUE, okStop)} :
                 /\ c.pc = "idle"
                 /\ \E tr \in {_track_learning_state_changes(c.s, c.d)} :
                      /\ self' = IF tr.raises THEN tr.s
                                 ELSE _update_learning_consumption_tracker(tr.s, c.d)
                      /\ data' = IF tr.raises THEN data ELSE c.d
                      /\ ghost' = GhostAfterTracking(GhostAfterCycle(self, c), self, c.d, tr)
    /\ UNCHANGED <<poll, call, env>>

Aged(stamp, minutes) ==
    IF stamp = NULL THEN NULL ELSE Min(stamp + minutes, MaxMinutes)

\* Minutes pass: the stamps of the open sessions are so much older.
Pass ==
    /\ poll.pc = "idle"
    /\ \E minutes \in 1..MaxMinutes :
         /\ self' = [self EXCEPT
                       !.current_heating_session.stable_start_time = Aged(@, minutes),
                       !.current_cooling_session.start_time = Aged(@, minutes),
                       !.current_startup_session.start_time = Aged(@, minutes)]
         /\ self'.current_heating_session.stable_start_time \in Ages \cup {NULL}
         /\ self'.current_cooling_session.start_time \in Ages \cup {NULL}
         /\ self'.current_startup_session.start_time \in Ages \cup {NULL}
    /\ UNCHANGED <<data, poll, call, env, ghost>>

TrackNext == TrackPoll \/ Pass

SpecTrack == TrackInit /\ [][TrackNext]_vars

\* ------------------------------------------------------------------------
\* C28: wood mode clears the sessions
\* ------------------------------------------------------------------------
NoSessionOpen ==
    /\ ~self.current_heating_session.open
    /\ ~self.current_cooling_session.open
    /\ ~self.current_startup_session.open

\* C28: a poll with operation_mode = 2 clears every open session, heating,
\* cooling and startup, and records no observation: after it no session of
\* any kind is open.
C28_WoodModeClearsSessions ==
    ghost.tracked.operation_mode = 2 => (NoSessionOpen /\ ghost.recorded = <<>>)

\* ------------------------------------------------------------------------
\* C29: the gates of the observations
\* ------------------------------------------------------------------------
HeatingCount(s) ==
    SumCounts(s.learning_data.heating_observations,
              DOMAIN s.learning_data.heating_observations)

CoolingCount(s) ==
    SumCounts(s.learning_data.cooling_observations,
              DOMAIN s.learning_data.cooling_observations)

\* The consumption observations of heat level hl.
ConsumptionCount(s, hl) ==
    IF hl \in DOMAIN s.learning_data.consumption_observations
    THEN s.learning_data.consumption_observations[hl].count
    ELSE 0

\* What the latest poll recorded has passed its gate.
RecordedPassedGate ==
    \A i \in 1..Len(ghost.recorded) :
        LET o == ghost.recorded[i]
        IN  /\ o.kind = "heating" => o.duration_seconds >= 15 * 60
            /\ o.kind = "cooling" => o.duration_seconds >= 30 * 60
            /\ o.kind = "startup" => (o.duration_seconds > 60 /\ o.consumption_kg > 0)

\* A step that adds an observation to the learning data found the session
\* open and past its gate; a heating observation is one of the heat level
\* of the session.
GatePassed ==
    /\ HeatingCount(self') > HeatingCount(self) =>
          /\ self.current_heating_session.open
          /\ Seconds(self.current_heating_session.stable_start_time) >= 15 * 60
          /\ \A hl \in HeatLevels :
                ConsumptionCount(self', hl) > ConsumptionCount(self, hl)
                    => hl = self.current_heating_session.heatlevel
    /\ CoolingCount(self') > CoolingCount(self) =>
          /\ self.current_cooling_session.open
          /\ Seconds(self.current_cooling_session.start_time) >= 30 * 60
    /\ self'.learning_data.startup_observations.count
          > self.learning_data.startup_observations.count =>
          /\ self.current_startup_session.open
          /\ Seconds(self.current_startup_session.start_time) > 60
          /\ self.learning_consumption_total
                > self.current_startup_session.start_learning_consumption

C30_ShutdownDeltaUninterrupted ==
    (\E i \in 1..Len(ghost.recorded) : ghost.recorded[i].kind = "shutdown_delta")
        => /\ ghost.tracked.entered_waiting
           /\ ghost.tracked.target_held
           /\ ghost.tracked.mode_steady

\* ------------------------------------------------------------------------
\* The saves as a machine: the polls of the learning sessions and a setter
\* create save tasks, which the event loop starts in the order of their
\* creation and which end when the Store has written.
\* ------------------------------------------------------------------------
MaxSaves == 3

\* asyncio.create_task(self.async_save_pellet_data()), count times over
create_task(s, count) ==
    [s EXCEPT !.save_tasks = @ \o [i \in 1..count |-> [pc |-> "created"]]]

\* "Periodic save of pellet data (every 15 minutes)"
PeriodicSave(s) ==
    LET stamped == IF s.last_pellet_save = NULL
                   THEN [s EXCEPT !.last_pellet_save = Now] ELSE s
    IN  IF stamped.last_pellet_save > 15
        THEN [create_task(stamped, 1) EXCEPT !.last_pellet_save = Now]
        ELSE stamped

\* The tasks of s that are at pc.
TasksAt(s, pc) == { i \in 1..Len(s.save_tasks) : s.save_tasks[i].pc = pc }

\* The tasks of s without the i-th.
WithoutTask(s, i) ==
    [s EXCEPT !.save_tasks =
        [j \in 1..(Len(@) - 1) |-> IF j < i THEN @[j] ELSE @[j + 1]]]

SaveInit == Setup(Run("save_cycle", NULL, FALSE))

\* A poll cycle as in TrackPoll, with the save task of every observation
\* and delta it records and with the periodic save at its end.
SavePoll ==
    /\ poll.pc = "idle"
    /\ ObservationCount(self.learning_data) < MaxTracked
    /\ \E t \in Polled(env.scenario), okStop \in Outcomes(self.auto_shutdown_enabled) :
         \E d \in {FetchAllData(t, data)} :
            /\ WithinBounds(d) /\ ~CycleRaises(d)
            /\ SameDay(d)
            /\ \E c \in {CycleStart(self, d, TRUE, okStop)} :
                 /\ c.pc = "idle"
                 /\ \E tr \in {_track_learning_state_changes(c.s, c.d)} :
                      /\ Len(self.save_tasks) + Len(tr.recorded) < MaxSaves
                      /\ self' = IF tr.raises
                                 THEN create_task(tr.s, Len(tr.recorded))
                                 ELSE PeriodicSave(_update_learning_consumption_tracker(
                                          create_task(tr.s, Len(tr.recorded)), c.d))
                      /\ data' = IF tr.raises THEN data ELSE c.d
                      /\ ghost' = GhostAfterTracking(GhostAfterCycle(self, c), self, c.d, tr)
    /\ UNCHANGED <<poll, call, env>>

\* set_pellet_capacity, with its save task
SaveSetter ==
    /\ Len(self.save_tasks) < MaxSaves
    /\ \E capacity \in Capacities :
         /\ capacity # self.pellet_capacity
         /\ self' = create_task(set_pellet_capacity(self, capacity), 1)
    /\ UNCHANGED <<data, poll, call, env, ghost>>

\* The event loop starts the oldest task it has not started:
\* async_save_pellet_data builds its blob and awaits self._store.async_save.
SaveStarts ==
    /\ poll.pc = "idle"
    /\ \E i \in TasksAt(self, "created") :
         /\ \A j \in TasksAt(self, "created") : i <= j
         /\ self' = [self EXCEPT !.save_tasks[i] =
                        [pc |-> "writing", data |-> async_save_pellet_data(self)]]
    /\ UNCHANGED <<data, poll, call, env, ghost>>

\* self._store.async_save returns, or raises and the error is logged.
SaveEnds ==
    /\ \E i \in TasksAt(self, "writing"), ok \in BOOLEAN :
         self' = IF ok
                 THEN [WithoutTask(self, i) EXCEPT !.store = self.save_tasks[i].data]
                 ELSE WithoutTask(self, i)
    /\ UNCHANGED <<data, poll, call, env, ghost>>

\* A quarter of an hour passes, or half an hour, for the sessions and for
\* the stamp of the periodic save.
SavePass ==
    /\ poll.pc = "idle"
    /\ \E minutes \in {15, MaxMinutes} :
         self' = [self EXCEPT
                    !.current_heating_session.stable_start_time = Aged(@, minutes),
                    !.current_cooling_session.start_time = Aged(@, minutes),
                    !.current_startup_session.start_time = Aged(@, minutes),
                    !.last_pellet_save = Aged(@, minutes)]
    /\ self' # self
    /\ UNCHANGED <<data, poll, call, env, ghost>>

SaveNext == SavePoll \/ SaveSetter \/ SaveStarts \/ SaveEnds \/ SavePass

SpecSave == SaveInit /\ [][SaveNext]_vars

\* ------------------------------------------------------------------------
\* C31: the saves of the persisted blob are serialized among themselves: at
\* most one save is in flight at any time, that is, at most one task has
\* entered async_save_pellet_data and not left it.
C31_OneSaveInFlight == Cardinality(TasksAt(self, "writing")) <= 1

\* ------------------------------------------------------------------------
\* The fetches as a machine: polls of a stove whose status, operating,
\* network and consumption fetches succeed or fail one by one, minutes
\* apart.
\* ------------------------------------------------------------------------
FetchOutcome(ok) == IF ok THEN "fetched" ELSE "failed"

\* "Discover stove IP if not known or too old": _async_discover_stove
\* leaves the fixed, the discovered or the cloud backup address.
Discovers(s, hourly) == s.stove_ip = "none" \/ hourly

Discover(s, hourly) ==
    IF Discovers(s, hourly) THEN [s EXCEPT !.stove_ip = "known"] ELSE s

\* "Get network data (less frequently)": the snapshot starts empty and
\* holds network data only when this cycle has fetched it.
FetchNetwork(s, d, netOk) ==
    IF ~s.network_fresh /\ netOk THEN [d EXCEPT !.hasNetwork = TRUE] ELSE d

NetworkFetch(s, netOk) == IF s.network_fresh THEN "skipped" ELSE FetchOutcome(netOk)

ConsumptionFetch(s, t) == IF s.consumption_fresh THEN "skipped" ELSE t.cons

\* The stamps that the fetches of a cycle leave.
Stamped(s, t, netOk) ==
    [s EXCEPT !.network_fresh = @ \/ netOk,
              !.consumption_fresh = @ \/ t.cons = "fetched"]

FetchInit == Setup(Run("fetch", NULL, FALSE))

GhostAfterFetch(g, s, t, netOk, hourly, d, raised) ==
    [g EXCEPT !.fetch =
        [status |-> FetchOutcome(t.status # NULL),
         operating |-> FetchOutcome(t.operating),
         network |-> NetworkFetch(s, netOk),
         consumption |-> ConsumptionFetch(s, t),
         had_network |-> data.hasNetwork,
         had_consumption |-> data.hasConsumption,
         day_before |-> data.day,
         snapshot_kept |-> d = data,
         was_undiscovered |-> s.stove_ip = "none",
         discovered |-> Discovers(s, hourly),
         failed |-> raised]]

\* _async_update_data of a cycle that is not suspended: it returns the
\* snapshot, or raises UpdateFailed after "Try to rediscover on next
\* update", and then the previous snapshot stays.
FetchPoll ==
    /\ poll.pc = "idle"
    /\ \E t \in Polled(env.scenario), netOk \in BOOLEAN, hourly \in BOOLEAN,
          okStop \in Outcomes(self.auto_shutdown_enabled) :
         \E tt \in {[t EXCEPT !.cons = ConsumptionFetch(self, t)]} :
         \E found \in {Stamped(Discover(self, hourly), t, netOk)} :
         \E d \in {FetchNetwork(self, FetchAllData(tt, data), netOk)} :
            /\ WithinBounds(d)
            /\ SameDay(d)
            /\ IF CycleRaises(d)
               THEN /\ self' = [found EXCEPT !.stove_ip = "none"]
                    /\ data' = data
                    /\ ghost' = GhostAfterFetch(ghost, self, t, netOk, hourly, data, TRUE)
               ELSE \E c \in {CycleStart(found, d, TRUE, okStop)} :
                    /\ c.pc = "idle"
                    /\ self' = c.s
                    /\ data' = c.d
                    /\ ghost' = GhostAfterFetch(GhostAfterCycle(self, c), self, t,
                                                netOk, hourly, c.d, FALSE)
    /\ UNCHANGED <<poll, call, env>>

\* More than five minutes pass: the network and the consumption data are
\* due again.
FetchPass ==
    /\ poll.pc = "idle"
    /\ self.network_fresh \/ self.consumption_fresh
    /\ self' = [self EXCEPT !.network_fresh = FALSE, !.consumption_fresh = FALSE]
    /\ UNCHANGED <<data, poll, call, env, ghost>>

FetchNext == FetchPoll \/ FetchPass

SpecFetch == FetchInit /\ [][FetchNext]_vars

\* ------------------------------------------------------------------------
\* C32: when the network or the consumption fetch of a cycle fails, the
\* snapshot the cycle publishes still holds the network and consumption
\* values of the snapshot before it.
C32_FailedFetchKeepsValues ==
    ~ghost.fetch.failed =>
        /\ (ghost.fetch.network = "failed" /\ ghost.fetch.had_network)
               => data.hasNetwork
        /\ (ghost.fetch.consumption = "failed" /\ ghost.fetch.had_consumption)
               => (data.hasConsumption /\ data.day = ghost.fetch.day_before)

\* ------------------------------------------------------------------------
\* C33: a poll cycle fails only if every fetch it needs has failed: when
\* the status fetch or the operating fetch succeeds, the cycle completes
\* and publishes its snapshot; a cycle that fails keeps the previous
\* snapshot and forces the discovery before the next attempt.
C33_FailsOnlyWhenAllFail ==
    /\ (ghost.fetch.status = "fetched" \/ ghost.fetch.operating = "fetched")
           => ~ghost.fetch.failed
    /\ ghost.fetch.failed => (ghost.fetch.snapshot_kept /\ self.stove_ip = "none")
    /\ ghost.fetch.was_undiscovered => ghost.fetch.discovered

\* ------------------------------------------------------------------------
\* C34: whenever no change is pending (change_in_progress false), the target
\* heatlevel, the target temperature and the target operation mode are all
\* null.
C34_IdleTargetsNull == ~self.change_in_progress => TargetsNull(self)

\* ------------------------------------------------------------------------
\* Start and stop as a machine: the only control calls are start and stop
\* commands issued while no change is pending, between the polls of a stove
\* whose owner changes heat level and mode in the app.
\* ------------------------------------------------------------------------
StartInit == Setup(Run("heatlevel", NULL, FALSE))

StartWhenIdle == ~self.change_in_progress /\ \E ok \in BOOLEAN : StartStove(ok)

StopWhenIdle == ~self.change_in_progress /\ \E ok \in BOOLEAN : StopStove(ok)

StartNext ==
    \/ CmdPollStart
    \/ CmdPollFails
    \/ CmdPollResent
    \/ StartWhenIdle
    \/ StopWhenIdle
    \/ Tick

SpecStart == StartInit /\ [][StartNext]_vars

\* ------------------------------------------------------------------------
\* C35: a start or stop command issued while no change is pending never
\* makes a later poll send a command that sets the heat level, the
\* temperature or the operation mode: no poll of such a run sends one.
C35_StartStopNeverResends == NoSetCommand(ghost.poll_log)

\* ------------------------------------------------------------------------
\* Wood mode as a machine: polls of a stove that burns pellets and wood,
\* with the auto-resume switched on and off, and time passing.
\* ------------------------------------------------------------------------
WoodInit == Setup(Run("wood_episode", NULL, FALSE))

\* set_auto_resume_after_wood: "If disabling while in wood mode, send stop
\* command to cancel pending resume".  The stop is a task of its own, which
\* runs as soon as the setter has returned.
set_auto_resume_after_wood(s, enabled, okStop) ==
    LET set == [s EXCEPT !.auto_resume_after_wood = enabled]
    IN  IF s.auto_resume_after_wood /\ ~enabled /\ s.was_in_wood_mode
        THEN async_stop_stove(set, okStop)
        ELSE Result(set, TRUE, <<>>)

SetAutoResume ==
    /\ MayCall
    /\ \E enabled \in BOOLEAN, okStop \in BOOLEAN :
         /\ enabled # self.auto_resume_after_wood
         /\ CallReturns(set_auto_resume_after_wood(self, enabled, okStop))

WoodNext ==
    \/ CmdPollStart
    \/ CmdPollRestore
    \/ CmdPollRestoreValue
    \/ CmdPollResent
    \/ SetAutoResume
    \/ Tick

SpecWood == WoodInit /\ [][WoodNext]_vars

\* ------------------------------------------------------------------------
\* C36: during one wood-mode episode, from the poll that first sees state 9
\* to the poll that sees it left, at most one auto-resume sequence is sent
\* successfully, and only with auto-resume enabled, with operation mode 0
\* seen on entering wood mode and with a smoke temperature of 110 degrees
\* or less.
C36_OneResumePerEpisode ==
    ghost.episode.resumes <= 1 /\ ghost.episode.justified

\* The resume has been sent in this episode, and a later poll has found the
\* fire still dying and has not sent it again.
C36_Witness ==
    /\ ghost.episode.open /\ ghost.episode.resumes = 1
    /\ poll.pc = "idle"
    /\ data.hasOperating /\ data.state = "9" /\ data.smoke_temp <= 110
    /\ ~data.auto_resume_commanded
    /\ self.auto_resume_after_wood

\* ------------------------------------------------------------------------
\* C37: after every poll, the heating session and the cooling session are
\* never both open.
C37_OneSessionOpen ==
    ~(self.current_heating_session.open /\ self.current_cooling_session.open)

\* ------------------------------------------------------------------------
\* The simulated stove burns with fuel left, has been at heat level 1 for
\* ten simulated minutes or more, and the simulated room is at the target
\* plus the shutdown delta, or above it.
ShutdownDue ==
    /\ call.pc = "burn"
    /\ call.arg.pellets_left.num > 0
    /\ call.arg.sim_heatlevel = 1
    /\ ~Lt(call.arg.time_at_level_1, Whole(10 * 60))
    /\ ~Lt(call.arg.sim_room_temp,
           Plus(call.arg.target_temp,
                self.learning_data.shutdown_restart_deltas.shutdown.avg_delta))

\* The pass taken then goes on burning, to a later pass, or enters the
\* waiting phase at heat level 1; it is not the pass that burns the fuel up.
ShutdownEndsBurn ==
    ShutdownDue => /\ call'.pc \in {"burn", "wait"}
                   /\ call'.arg.step_event # "pellets_empty"
                   /\ call'.pc = "wait" => call'.arg.sim_heatlevel = 1

\* C38: in the temperature-mode simulation, whenever the simulated stove has
\* been at heat level 1 for at least ten simulated minutes and the simulated
\* room temperature is at or above the target plus the shutdown delta, the
\* burning phase ends with the transition to the waiting phase at heat
\* level 1; it does not burn on until the fuel is exhausted.
C38_ShutdownEndsBurn == [][ShutdownEndsBurn]_vars

\* ------------------------------------------------------------------------
\* C39: in every state reached after a poll, the high-smoke alert and the
\* low-wood alert are active only with their notified latch set and their
\* condition timer running (start time not null).
C39_ActiveImpliesLatched ==
    poll.pc = "idle" =>
        /\ self.high_smoke_alert_active =>
               (self.high_smoke_alert_sent /\ self.high_smoke_temp_start_time # NULL)
        /\ self.low_wood_alert_active =>
               (self.low_wood_alert_sent /\ self.low_wood_temp_start_time # NULL)

\* The low-wood alert is active after a poll later than the one that fired
\* it.
C39_Witness ==
    /\ poll.pc = "idle"
    /\ self.low_wood_alert_active /\ ~data.low_wood_temp_triggered

====
